---- MODULE Spec2Model ----
(***************************************************************************)
(* A model of the jsjson package (src/main.go, lines 1-669): the JSONValue *)
(* wrapper, path navigation with Get, the type coercions and the          *)
(* constructors Parse, Valid, Invalid and Clone.                           *)
(*                                                                         *)
(* Go strings are sequences of one-character strings, so that strconv's    *)
(* scanning can be modelled character by character.  A Go interface{}      *)
(* value is a record whose "kind" field is the %T name of its dynamic      *)
(* type.  A float64 is the decimal m / 10^d, kept normalised.              *)
(***************************************************************************)
EXTENDS Integers, Sequences, FiniteSets, TLC

(***************************************************************************)
(* Go values held in an interface{}                                        *)
(***************************************************************************)
Nil == [kind |-> "nil"]

MkBool(b) == [kind |-> "bool", b |-> b]

MkString(s) == [kind |-> "string", s |-> s]

MkInt(i) == [kind |-> "int", i |-> i]

MkSlice(e) == [kind |-> "[]interface {}", elems |-> e]

MkMap(f) == [kind |-> "map[string]interface {}", fields |-> f]

MkChan == [kind |-> "chan int"]

RECURSIVE Pow10(_)
Pow10(d) == IF d = 0 THEN 1 ELSE 10 * Pow10(d - 1)

RECURSIVE NormDec(_, _)
NormDec(m, d) ==
    IF m = 0 THEN <<0, 0>>
    ELSE IF d > 0 /\ m % 10 = 0 THEN NormDec(m \div 10, d - 1)
    ELSE <<m, d>>

\* the float64 with decimal value m / 10^d
MkFloat(m, d) ==
    LET n == NormDec(m, d) IN [kind |-> "float64", m |-> n[1], d |-> n[2]]

\* a variant of FloatToInt that rounds down
FloatToIntFloor(v) == v.m \div Pow10(v.d)

\* Go's int(v) for a float64 v: the fraction is discarded (truncation toward zero)
FloatToInt(v) ==
    IF v.m >= 0 THEN v.m \div Pow10(v.d) ELSE -((-v.m) \div Pow10(v.d))

IntToFloat(i) == MkFloat(i, 0)

(***************************************************************************)
(* JSONError and JSONValue                                                 *)
(***************************************************************************)
\* the nil error
NilErr == [op |-> "<nil>", msg |-> [f |-> "<nil>"]]

\* &JSONError{Op: op, Err: msg}; msg is the fmt.Errorf format with its arguments
JSONError(op, msg) == [op |-> op, msg |-> msg]

JSONValue(data, err) == [data |-> data, err |-> err]

IsValid(j) == j.err = NilErr

Error(j) == j.err

Raw(j) == IF j.err # NilErr THEN Nil ELSE j.data

\* a variant of IsNull without the error check
IsNullDataOnly(j) == j.data = Nil

IsNull(j) == j.err = NilErr /\ j.data = Nil

\* a variant of Type that inspects the node before the error
TypeNodeFirst(j) ==
    CASE j.data.kind = "nil" -> "null"
      [] j.data.kind = "bool" -> "boolean"
      [] j.data.kind = "float64" -> "number"
      [] j.data.kind = "string" -> "string"
      [] j.data.kind = "[]interface {}" -> "array"
      [] j.data.kind = "map[string]interface {}" -> "object"
      [] OTHER -> IF j.err # NilErr THEN "error" ELSE "unknown"

Type(j) ==
    IF j.err # NilErr THEN "error"
    ELSE CASE j.data.kind = "nil" -> "null"
           [] j.data.kind = "bool" -> "boolean"
           [] j.data.kind = "float64" -> "number"
           [] j.data.kind = "string" -> "string"
           [] j.data.kind = "[]interface {}" -> "array"
           [] j.data.kind = "map[string]interface {}" -> "object"
           [] OTHER -> "unknown"

(***************************************************************************)
(* strconv, as the package calls it                                        *)
(***************************************************************************)
DigitChars == <<"0", "1", "2", "3", "4", "5", "6", "7", "8", "9">>

IsDigit(c) == \E k \in 1..Len(DigitChars) : DigitChars[k] = c

DigitVal(c) == (CHOOSE k \in 1..Len(DigitChars) : DigitChars[k] = c) - 1

AllDigits(s) == \A k \in 1..Len(s) : IsDigit(s[k])

RECURSIVE DecimalValue(_)
DecimalValue(s) ==
    IF s = <<>> THEN 0
    ELSE 10 * DecimalValue(SubSeq(s, 1, Len(s) - 1)) + DigitVal(s[Len(s)])

HasSign(s) == Len(s) > 0 /\ s[1] \in {"-", "+"}

Unsigned(s) == IF HasSign(s) THEN Tail(s) ELSE s

\* strconv.Atoi: an optional sign followed by one or more decimal digits
Atoi(s) ==
    LET body == Unsigned(s) IN
    IF Len(body) < 1 \/ ~AllDigits(body)
    THEN [ok |-> FALSE, n |-> 0]
    ELSE [ok |-> TRUE,
          n |-> IF s[1] = "-" THEN -DecimalValue(body) ELSE DecimalValue(body)]

\* position of the decimal point in s, 0 when there is none
DotAt(s) == IF \E k \in 1..Len(s) : s[k] = "."
            THEN CHOOSE k \in 1..Len(s) : s[k] = "." /\ \A h \in 1..(k - 1) : s[h] # "."
            ELSE 0

\* strconv.ParseFloat(s, 64) on decimal literals: optional sign, digits with
\* at most one decimal point and at least one digit
ParseFloat(s) ==
    LET body == Unsigned(s)
        dot == DotAt(body)
        ip == IF dot = 0 THEN body ELSE SubSeq(body, 1, dot - 1)
        fp == IF dot = 0 THEN <<>> ELSE SubSeq(body, dot + 1, Len(body))
        mag == DecimalValue(ip \o fp)
    IN IF ~AllDigits(ip) \/ ~AllDigits(fp) \/ Len(ip) + Len(fp) < 1
       THEN [ok |-> FALSE, f |-> MkFloat(0, 0)]
       ELSE [ok |-> TRUE,
             f |-> MkFloat(IF s[1] = "-" THEN -mag ELSE mag, Len(fp))]

ParseBoolTrue == {<<"1">>, <<"t">>, <<"T">>, <<"t", "r", "u", "e">>,
                  <<"T", "R", "U", "E">>, <<"T", "r", "u", "e">>}

ParseBoolFalse == {<<"0">>, <<"f">>, <<"F">>, <<"f", "a", "l", "s", "e">>,
                   <<"F", "A", "L", "S", "E">>, <<"F", "a", "l", "s", "e">>}

\* a variant of ParseBool that accepts the two words only
ParseBoolWordsOnly(s) ==
    IF s = <<"t", "r", "u", "e">> THEN [ok |-> TRUE, b |-> TRUE]
    ELSE IF s = <<"f", "a", "l", "s", "e">> THEN [ok |-> TRUE, b |-> FALSE]
    ELSE [ok |-> FALSE, b |-> FALSE]

\* strconv.ParseBool
ParseBool(s) ==
    IF s \in ParseBoolTrue THEN [ok |-> TRUE, b |-> TRUE]
    ELSE IF s \in ParseBoolFalse THEN [ok |-> TRUE, b |-> FALSE]
    ELSE [ok |-> FALSE, b |-> FALSE]

(***************************************************************************)
(* Path navigation                                                         *)
(***************************************************************************)
\* a variant of convertToIndex that takes a string of decimal digits only
convertToIndexDigitsOnly(key) ==
    CASE key.kind = "int" -> [idx |-> key.i, cause |-> ""]
      [] key.kind = "string" ->
            IF key.s # <<>> /\ AllDigits(key.s)
            THEN [idx |-> DecimalValue(key.s), cause |-> ""]
            ELSE [idx |-> 0, cause |-> "strconv.Atoi: invalid syntax"]
      [] key.kind = "float64" -> [idx |-> FloatToInt(key), cause |-> ""]
      [] OTHER -> [idx |-> 0, cause |-> "cannot convert %T to array index"]

\* convertToIndex: (int, error); cause names the error, "" when it is nil
convertToIndex(key) ==
    CASE key.kind = "int" -> [idx |-> key.i, cause |-> ""]
      [] key.kind = "string" ->
            LET r == Atoi(key.s) IN
            [idx |-> r.n, cause |-> IF r.ok THEN "" ELSE "strconv.Atoi: invalid syntax"]
      [] key.kind = "float64" -> [idx |-> FloatToInt(key), cause |-> ""]
      [] OTHER -> [idx |-> 0, cause |-> "cannot convert %T to array index"]

\* variants of IndexInBounds: without the test for a negative index, and
\* with the upper test off by one
IndexInBoundsNoLower(idx, n) == ~(idx >= n)

IndexInBoundsInclusive(idx, n) == ~(idx < 0 \/ idx > n)

\* the guard of Get's bounds test, negated: idx is a legal index of a slice of length n
IndexInBounds(idx, n) == ~(idx < 0 \/ idx >= n)

\* a variant of Position that counts segments from one
PositionFromOne(i) == i

\* the position Get reports for the i-th segment of the path: range's
\* zero-based index
Position(i) == i - 1

\* what a Get call did: the value returned, the number of path segments it
\* examined, and whether it ended in a run-time panic instead of returning
GetResult(val, examined, panicked) ==
    [val |-> val, examined |-> examined, panicked |-> panicked]

GetFail(msg, examined) ==
    GetResult(JSONValue(Nil, JSONError("Get", msg)), examined, FALSE)

\* the loop of Get; i is the one-based index of the next segment, so the
\* position the code reports is i - 1
RECURSIVE GetLoop(_, _, _)
GetLoop(current, keys, i) ==
    IF i > Len(keys) THEN GetResult(JSONValue(current, NilErr), Len(keys), FALSE)
    ELSE
    LET key == keys[i]
        pos == Position(i)
    IN
    IF current = Nil
    THEN GetFail([f |-> "cannot access key %v on nil value at position %d",
                  key |-> key, pos |-> pos], i)
    ELSE CASE current.kind = "map[string]interface {}" ->
                IF key.kind # "string"
                THEN GetFail([f |-> "key must be string for object access, got %T at position %d",
                              typ |-> key.kind, pos |-> pos], i)
                ELSE IF key.s \notin DOMAIN current.fields
                THEN GetFail([f |-> "key %q not found at position %d",
                              key |-> MkString(key.s), pos |-> pos], i)
                ELSE GetLoop(current.fields[key.s], keys, i + 1)
           [] current.kind = "[]interface {}" ->
                LET c == convertToIndex(key)
                    n == Len(current.elems)
                IN
                IF c.cause # ""
                THEN GetFail([f |-> "invalid array index %v at position %d: %v",
                              key |-> key, pos |-> pos, cause |-> c.cause], i)
                ELSE IF ~IndexInBounds(c.idx, n)
                THEN GetFail([f |-> "array index %d out of bounds (length: %d) at position %d",
                              idx |-> c.idx, len |-> n, pos |-> pos], i)
                ELSE IF c.idx + 1 \in DOMAIN current.elems
                THEN GetLoop(current.elems[c.idx + 1], keys, i + 1)
                ELSE GetResult(JSONValue(Nil, NilErr), i, TRUE)
           [] OTHER ->
                GetFail([f |-> "cannot access key %v on type %T at position %d",
                         key |-> key, typ |-> current.kind, pos |-> pos], i)

\* a variant of GetCall without the check of the receiver's error
GetCallNoPropagation(j, keys) ==
    IF Len(keys) = 0 THEN GetResult(j, 0, FALSE)
    ELSE GetLoop(j.data, keys, 1)

\* a variant of GetCall that tests for a nil node before the empty path
GetCallNullFirst(j, keys) ==
    IF j.err # NilErr THEN GetResult(j, 0, FALSE)
    ELSE IF j.data = Nil
    THEN GetFail([f |-> "cannot access key %v on nil value at position %d",
                  key |-> Nil, pos |-> 0], 0)
    ELSE IF Len(keys) = 0 THEN GetResult(j, 0, FALSE)
    ELSE GetLoop(j.data, keys, 1)

\* a variant of GetCall that hands back a scalar receiver whatever the path
GetCallScalarsPass(j, keys) ==
    IF j.err # NilErr THEN GetResult(j, 0, FALSE)
    ELSE IF Len(keys) = 0 THEN GetResult(j, 0, FALSE)
    ELSE IF j.data.kind \in {"bool", "float64", "string"} THEN GetResult(j, 0, FALSE)
    ELSE GetLoop(j.data, keys, 1)

\* a variant of GetCall that reads an absent key of the receiver as null
GetCallAbsentKeyIsNull(j, keys) ==
    IF j.err # NilErr THEN GetResult(j, 0, FALSE)
    ELSE IF Len(keys) = 0 THEN GetResult(j, 0, FALSE)
    ELSE IF /\ j.data.kind = "map[string]interface {}"
            /\ keys[1].kind = "string"
            /\ keys[1].s \notin DOMAIN j.data.fields
    THEN GetLoop(Nil, keys, 2)
    ELSE GetLoop(j.data, keys, 1)

GetCall(j, keys) ==
    IF j.err # NilErr THEN GetResult(j, 0, FALSE)
    ELSE IF Len(keys) = 0 THEN GetResult(j, 0, FALSE)
    ELSE GetLoop(j.data, keys, 1)

Get(j, keys) == GetCall(j, keys).val

\* a variant of GetOr that also replaces a nil payload by the default
GetOrNilIsDefault(j, defaultValue, keys) ==
    LET result == Get(j, keys) IN
    IF result.err # NilErr \/ result.data = Nil THEN defaultValue ELSE result.data

GetOr(j, defaultValue, keys) ==
    LET result == Get(j, keys) IN
    IF result.err # NilErr THEN defaultValue ELSE result.data

Has(j, keys) == IsValid(Get(j, keys))

(***************************************************************************)
(* fmt.Sprintf("%v", v)                                                    *)
(***************************************************************************)
\* the characters of the model's strings, in byte order
CharOrder == <<" ", "+", "-", ".", "0", "1", "2", "3", "4", "5", "6", "7", "8", "9",
               ":", "<", ">", "A", "E", "F", "L", "R", "S", "T", "U", "[", "]",
               "a", "b", "c", "e", "f", "g", "h", "i", "k", "l", "m", "n", "o", "p",
               "r", "s", "t", "u", "x", "y", "z">>

Ord(c) == CHOOSE k \in 1..Len(CharOrder) : CharOrder[k] = c

RECURSIVE StrLess(_, _)
StrLess(a, b) ==
    IF b = <<>> THEN FALSE
    ELSE IF a = <<>> THEN TRUE
    ELSE IF a[1] = b[1] THEN StrLess(Tail(a), Tail(b))
    ELSE Ord(a[1]) < Ord(b[1])

\* the keys of a map in the sorted order fmt and encoding/json visit them
RECURSIVE SortedKeys(_)
SortedKeys(ks) ==
    IF ks = {} THEN <<>>
    ELSE LET least == CHOOSE k \in ks : \A o \in ks \ {k} : StrLess(k, o)
         IN <<least>> \o SortedKeys(ks \ {least})

RECURSIVE NatToStr(_)
NatToStr(n) ==
    IF n < 10 THEN <<DigitChars[n + 1]>>
    ELSE NatToStr(n \div 10) \o <<DigitChars[(n % 10) + 1]>>

IntToStr(i) == IF i < 0 THEN <<"-">> \o NatToStr(-i) ELSE NatToStr(i)

RECURSIVE ZeroPad(_, _)
ZeroPad(s, width) == IF Len(s) >= width THEN s ELSE ZeroPad(<<"0">> \o s, width)

\* a float64 in %v (shortest decimal that round-trips), for magnitudes
\* printed without an exponent
FloatToStr(v) ==
    LET mag == IF v.m < 0 THEN -v.m ELSE v.m
        ip == NatToStr(mag \div Pow10(v.d))
        fp == ZeroPad(NatToStr(mag % Pow10(v.d)), v.d)
    IN (IF v.m < 0 THEN <<"-">> ELSE <<>>) \o ip
       \o (IF v.d = 0 THEN <<>> ELSE <<".">> \o fp)

RECURSIVE Sprintv(_)
RECURSIVE SprintElems(_)
RECURSIVE SprintFields(_, _)
Sprintv(v) ==
    CASE v.kind = "nil" -> <<"<", "n", "i", "l", ">">>
      [] v.kind = "bool" -> IF v.b THEN <<"t", "r", "u", "e">>
                                   ELSE <<"f", "a", "l", "s", "e">>
      [] v.kind = "float64" -> FloatToStr(v)
      [] v.kind = "int" -> IntToStr(v.i)
      [] v.kind = "string" -> v.s
      [] v.kind = "[]interface {}" -> <<"[">> \o SprintElems(v.elems) \o <<"]">>
      [] v.kind = "map[string]interface {}" ->
            <<"m", "a", "p", "[">>
            \o SprintFields(v.fields, SortedKeys(DOMAIN v.fields)) \o <<"]">>
      \* a channel prints as its address, a hexadecimal number
      [] v.kind = "chan int" -> <<"0", "x", "c">>

SprintElems(e) ==
    IF e = <<>> THEN <<>>
    ELSE IF Len(e) = 1 THEN Sprintv(e[1])
    ELSE Sprintv(e[1]) \o <<" ">> \o SprintElems(Tail(e))

SprintFields(f, ks) ==
    IF ks = <<>> THEN <<>>
    ELSE LET one == ks[1] \o <<":">> \o Sprintv(f[ks[1]])
         IN IF Len(ks) = 1 THEN one
            ELSE one \o <<" ">> \o SprintFields(f, Tail(ks))

(***************************************************************************)
(* Type conversion methods; each returns the (value, error) pair           *)
(***************************************************************************)
String(j) ==
    IF j.err # NilErr THEN [v |-> <<>>, err |-> j.err]
    ELSE CASE j.data.kind = "string" -> [v |-> j.data.s, err |-> NilErr]
           [] j.data.kind = "nil" -> [v |-> <<>>, err |-> NilErr]
           [] OTHER -> [v |-> Sprintv(j.data), err |-> NilErr]

\* a variant of StringOr that substitutes the default on an error only
StringOrErrorOnly(j, defaultVal) ==
    LET r == String(j) IN IF r.err # NilErr THEN defaultVal ELSE r.v

StringOr(j, defaultVal) ==
    LET r == String(j) IN
    IF r.err # NilErr \/ r.v = <<>> THEN defaultVal ELSE r.v

\* JSONValue.Int (Int itself names the integers in TLA+)
\* a variant of Int that reports the receiver's error under its own name
IntValueRetags(j) ==
    IF j.err # NilErr THEN [v |-> 0, err |-> JSONError("Int", j.err.msg)]
    ELSE CASE j.data.kind = "float64" -> [v |-> FloatToInt(j.data), err |-> NilErr]
           [] j.data.kind = "int" -> [v |-> j.data.i, err |-> NilErr]
           [] j.data.kind = "string" ->
                LET r == Atoi(j.data.s) IN
                IF r.ok THEN [v |-> r.n, err |-> NilErr]
                ELSE [v |-> 0,
                      err |-> JSONError("Int", [f |-> "cannot convert string %q to int",
                                                key |-> j.data])]
           [] j.data.kind = "nil" -> [v |-> 0, err |-> NilErr]
           [] OTHER -> [v |-> 0,
                        err |-> JSONError("Int", [f |-> "cannot convert %T to int",
                                                  typ |-> j.data.kind])]

IntValue(j) ==
    IF j.err # NilErr THEN [v |-> 0, err |-> j.err]
    ELSE CASE j.data.kind = "float64" -> [v |-> FloatToInt(j.data), err |-> NilErr]
           [] j.data.kind = "int" -> [v |-> j.data.i, err |-> NilErr]
           [] j.data.kind = "string" ->
                LET r == Atoi(j.data.s) IN
                IF r.ok THEN [v |-> r.n, err |-> NilErr]
                ELSE [v |-> 0,
                      err |-> JSONError("Int", [f |-> "cannot convert string %q to int",
                                                key |-> j.data])]
           [] j.data.kind = "nil" -> [v |-> 0, err |-> NilErr]
           [] OTHER -> [v |-> 0,
                        err |-> JSONError("Int", [f |-> "cannot convert %T to int",
                                                  typ |-> j.data.kind])]

\* a variant of IntOr that also replaces a zero result by the default
IntOrZeroIsDefault(j, defaultValue) ==
    LET r == IntValue(j) IN IF r.err = NilErr /\ r.v # 0 THEN r.v ELSE defaultValue

IntOr(j, defaultValue) ==
    LET r == IntValue(j) IN IF r.err = NilErr THEN r.v ELSE defaultValue

Float64(j) ==
    IF j.err # NilErr THEN [v |-> MkFloat(0, 0), err |-> j.err]
    ELSE CASE j.data.kind = "float64" -> [v |-> j.data, err |-> NilErr]
           [] j.data.kind = "int" -> [v |-> IntToFloat(j.data.i), err |-> NilErr]
           [] j.data.kind = "string" ->
                LET r == ParseFloat(j.data.s) IN
                IF r.ok THEN [v |-> r.f, err |-> NilErr]
                ELSE [v |-> MkFloat(0, 0),
                      err |-> JSONError("Float64", [f |-> "cannot convert string %q to float64",
                                                    key |-> j.data])]
           [] j.data.kind = "nil" -> [v |-> MkFloat(0, 0), err |-> NilErr]
           [] OTHER -> [v |-> MkFloat(0, 0),
                        err |-> JSONError("Float64", [f |-> "cannot convert %T to float64",
                                                      typ |-> j.data.kind])]

Float64Or(j, defaultValue) ==
    LET r == Float64(j) IN IF r.err = NilErr THEN r.v ELSE defaultValue

Bool(j) ==
    IF j.err # NilErr THEN [v |-> FALSE, err |-> j.err]
    ELSE CASE j.data.kind = "bool" -> [v |-> j.data.b, err |-> NilErr]
           [] j.data.kind = "string" ->
                LET r == ParseBool(j.data.s) IN
                IF r.ok THEN [v |-> r.b, err |-> NilErr]
                ELSE [v |-> FALSE,
                      err |-> JSONError("Bool", [f |-> "cannot convert string %q to bool",
                                                 key |-> j.data])]
           [] j.data.kind = "float64" -> [v |-> j.data.m # 0, err |-> NilErr]
           [] j.data.kind = "nil" -> [v |-> FALSE, err |-> NilErr]
           [] OTHER -> [v |-> FALSE,
                        err |-> JSONError("Bool", [f |-> "cannot convert %T to bool",
                                                   typ |-> j.data.kind])]

BoolOr(j, defaultValue) ==
    LET r == Bool(j) IN IF r.err = NilErr THEN r.v ELSE defaultValue

(***************************************************************************)
(* Collection projection                                                   *)
(***************************************************************************)
\* a variant of Array that fills the result from the last element down
ArrayReversed(j) ==
    IF j.err # NilErr THEN [v |-> <<>>, err |-> j.err]
    ELSE IF j.data.kind # "[]interface {}"
    THEN [v |-> <<>>,
          err |-> JSONError("Array", [f |-> "value is not an array, got %T",
                                      typ |-> j.data.kind])]
    ELSE [v |-> [i \in 1..Len(j.data.elems) |->
                    JSONValue(j.data.elems[Len(j.data.elems) + 1 - i], NilErr)],
          err |-> NilErr]

Array(j) ==
    IF j.err # NilErr THEN [v |-> <<>>, err |-> j.err]
    ELSE IF j.data.kind # "[]interface {}"
    THEN [v |-> <<>>,
          err |-> JSONError("Array", [f |-> "value is not an array, got %T",
                                      typ |-> j.data.kind])]
    ELSE [v |-> [i \in 1..Len(j.data.elems) |-> JSONValue(j.data.elems[i], NilErr)],
          err |-> NilErr]

Object(j) ==
    IF j.err # NilErr THEN [v |-> <<>>, err |-> j.err]
    ELSE IF j.data.kind # "map[string]interface {}"
    THEN [v |-> <<>>,
          err |-> JSONError("Object", [f |-> "value is not an object, got %T",
                                       typ |-> j.data.kind])]
    ELSE [v |-> [k \in DOMAIN j.data.fields |-> JSONValue(j.data.fields[k], NilErr)],
          err |-> NilErr]

(***************************************************************************)
(* encoding/json, at the level of JSON tokens.  A text is a sequence of    *)
(* tokens: punctuation, literals, white space and stray characters.        *)
(***************************************************************************)
Tok(t) == [t |-> t]

NumTok(v) == [t |-> "number", m |-> v.m, d |-> v.d]

StrTok(s) == [t |-> "string", s |-> s]

RECURSIVE Encode(_)
RECURSIVE EncodeElems(_)
RECURSIVE EncodeFields(_, _)
\* the text json.Marshal and json.Encoder write for v; <<>> when the value
\* is of an unsupported type
Encode(v) ==
    CASE v.kind = "nil" -> <<Tok("null")>>
      [] v.kind = "bool" -> <<Tok(IF v.b THEN "true" ELSE "false")>>
      [] v.kind = "float64" -> <<NumTok(v)>>
      [] v.kind = "int" -> <<NumTok(IntToFloat(v.i))>>
      [] v.kind = "string" -> <<StrTok(v.s)>>
      [] v.kind = "[]interface {}" ->
            LET body == EncodeElems(v.elems) IN
            IF body = <<Tok("unsupported")>> THEN <<>>
            ELSE <<Tok("[")>> \o body \o <<Tok("]")>>
      [] v.kind = "map[string]interface {}" ->
            LET body == EncodeFields(v.fields, SortedKeys(DOMAIN v.fields)) IN
            IF body = <<Tok("unsupported")>> THEN <<>>
            ELSE <<Tok("{")>> \o body \o <<Tok("}")>>
      [] OTHER -> <<>>

EncodeElems(e) ==
    IF e = <<>> THEN <<>>
    ELSE LET head == Encode(e[1])
             rest == EncodeElems(Tail(e))
         IN IF head = <<>> \/ rest = <<Tok("unsupported")>> THEN <<Tok("unsupported")>>
            ELSE IF Len(e) = 1 THEN head
            ELSE head \o <<Tok(",")>> \o rest

EncodeFields(f, ks) ==
    IF ks = <<>> THEN <<>>
    ELSE LET head == Encode(f[ks[1]])
             rest == EncodeFields(f, Tail(ks))
         IN IF head = <<>> \/ rest = <<Tok("unsupported")>> THEN <<Tok("unsupported")>>
            ELSE IF Len(ks) = 1 THEN <<StrTok(ks[1]), Tok(":")>> \o head
            ELSE <<StrTok(ks[1]), Tok(":")>> \o head \o <<Tok(",")>> \o rest

\* json.Marshal: (bytes, error)
Marshal(v) == [ok |-> Encode(v) # <<>>, text |-> Encode(v)]

DecodeFail == [ok |-> FALSE, v |-> Nil, next |-> 0]

RECURSIVE DecodeValue(_, _)
RECURSIVE DecodeElems(_, _, _)
RECURSIVE DecodeMembers(_, _, _)
\* decode one value of text t starting at token p into a generic tree
DecodeValue(t, p) ==
    IF p > Len(t) THEN DecodeFail
    ELSE CASE t[p].t = "null" -> [ok |-> TRUE, v |-> Nil, next |-> p + 1]
           [] t[p].t = "true" -> [ok |-> TRUE, v |-> MkBool(TRUE), next |-> p + 1]
           [] t[p].t = "false" -> [ok |-> TRUE, v |-> MkBool(FALSE), next |-> p + 1]
           [] t[p].t = "number" ->
                [ok |-> TRUE, v |-> MkFloat(t[p].m, t[p].d), next |-> p + 1]
           [] t[p].t = "string" -> [ok |-> TRUE, v |-> MkString(t[p].s), next |-> p + 1]
           [] t[p].t = "[" ->
                IF p + 1 <= Len(t) /\ t[p + 1].t = "]"
                THEN [ok |-> TRUE, v |-> MkSlice(<<>>), next |-> p + 2]
                ELSE DecodeElems(t, p + 1, <<>>)
           [] t[p].t = "{" ->
                IF p + 1 <= Len(t) /\ t[p + 1].t = "}"
                THEN [ok |-> TRUE, v |-> MkMap(<<>>), next |-> p + 2]
                ELSE DecodeMembers(t, p + 1, <<>>)
           [] OTHER -> DecodeFail

DecodeElems(t, p, acc) ==
    LET r == DecodeValue(t, p) IN
    IF ~r.ok \/ r.next > Len(t) THEN DecodeFail
    ELSE IF t[r.next].t = "," THEN DecodeElems(t, r.next + 1, Append(acc, r.v))
    ELSE IF t[r.next].t = "]"
    THEN [ok |-> TRUE, v |-> MkSlice(Append(acc, r.v)), next |-> r.next + 1]
    ELSE DecodeFail

\* a repeated key overwrites the earlier entry of the map
DecodeMembers(t, p, acc) ==
    IF p + 1 > Len(t) \/ t[p].t # "string" \/ t[p + 1].t # ":" THEN DecodeFail
    ELSE LET r == DecodeValue(t, p + 2)
             m == (t[p].s :> r.v) @@ acc
         IN IF ~r.ok \/ r.next > Len(t) THEN DecodeFail
            ELSE IF t[r.next].t = "," THEN DecodeMembers(t, r.next + 1, m)
            ELSE IF t[r.next].t = "}"
            THEN [ok |-> TRUE, v |-> MkMap(m), next |-> r.next + 1]
            ELSE DecodeFail

NotSpace(tok) == tok.t # "space"

\* json.Unmarshal(text, &result) with result an interface{}: white space is
\* skipped, and the text must be exactly one value
Unmarshal(text) ==
    LET t == SelectSeq(text, NotSpace)
        r == DecodeValue(t, 1)
    IN IF r.ok /\ r.next = Len(t) + 1 THEN [ok |-> TRUE, v |-> r.v]
       ELSE [ok |-> FALSE, v |-> Nil]

(***************************************************************************)
(* Constructors                                                            *)
(***************************************************************************)
\* inputs of Parse that are not generic trees: a string or a []byte holding
\* a JSON text, and a JSONValue
TextString(text) == [kind |-> "string", text |-> text]

TextBytes(text) == [kind |-> "[]uint8", text |-> text]

Wrapped(j) == [kind |-> "jsjson.JSONValue", j |-> j]

ParseFail(msg) == JSONValue(Nil, JSONError("Parse", msg))

\* the end of Parse: standard parsing into interface{}
ParseBytes(jsonBytes) ==
    LET r == Unmarshal(jsonBytes) IN
    IF ~r.ok THEN ParseFail([f |-> "json: syntax error"])
    ELSE JSONValue(r.v, NilErr)

\* a variant of Parse that reports a failed JSONValue it is given as a
\* failure of its own
ParseRetagsFailed(v, dest) ==
    IF v = Nil THEN ParseFail([f |-> "input is nil"])
    ELSE IF dest \notin {"none", "nil"}
    THEN ParseFail([f |-> "destination must be a pointer, got %T", typ |-> dest])
    ELSE CASE v.kind = "string" ->
                IF v.text = <<>> THEN ParseFail([f |-> "empty string"])
                ELSE ParseBytes(v.text)
           [] v.kind = "[]uint8" ->
                IF Len(v.text) = 0 THEN ParseFail([f |-> "empty byte slice"])
                ELSE ParseBytes(v.text)
           [] v.kind = "jsjson.JSONValue" ->
                IF v.j.err # NilErr THEN ParseFail(v.j.err.msg) ELSE v.j
           [] OTHER ->
                LET m == Marshal(v) IN
                IF ~m.ok THEN ParseFail([f |-> "json: unsupported type: %s", typ |-> "chan int"])
                ELSE ParseBytes(m.text)

\* Parse(v, dest...); dest is "none" when no destination is passed, "nil"
\* for a nil destination, else the %T name of a destination that is not a
\* pointer.  With structDest nil the code parses into interface{} only.
Parse(v, dest) ==
    IF v = Nil THEN ParseFail([f |-> "input is nil"])
    ELSE IF dest \notin {"none", "nil"}
    THEN ParseFail([f |-> "destination must be a pointer, got %T", typ |-> dest])
    ELSE CASE v.kind = "string" ->
                IF v.text = <<>> THEN ParseFail([f |-> "empty string"])
                ELSE ParseBytes(v.text)
           [] v.kind = "[]uint8" ->
                IF Len(v.text) = 0 THEN ParseFail([f |-> "empty byte slice"])
                ELSE ParseBytes(v.text)
           [] v.kind = "jsjson.JSONValue" -> v.j
           [] OTHER ->
                LET m == Marshal(v) IN
                IF ~m.ok THEN ParseFail([f |-> "json: unsupported type: %s", typ |-> "chan int"])
                ELSE ParseBytes(m.text)

\* MustParse panics with the error instead of returning a failed value
MustParse(v, dest) ==
    LET result == Parse(v, dest) IN
    [val |-> result, panicked |-> result.err # NilErr]

Valid(data) == JSONValue(data, NilErr)

Invalid(err) == JSONValue(Nil, JSONError("Invalid", err))

\* a variant of Clone that hands back the receiver's data with the error
CloneKeepsData(j) ==
    IF j.err # NilErr THEN j
    ELSE IF ~Marshal(j.data).ok
    THEN JSONValue(j.data, JSONError("Clone", [f |-> "json: unsupported type: %s",
                                               typ |-> "chan int"]))
    ELSE Parse(TextBytes(Marshal(j.data).text), "none")

\* Clone: the encoder's output ends in a newline, which is cut off before
\* the buffer is parsed
Clone(j) ==
    IF j.err # NilErr THEN j
    ELSE LET m == Marshal(j.data) IN
         IF ~m.ok
         THEN JSONValue(Nil, JSONError("Clone", [f |-> "json: unsupported type: %s",
                                                 typ |-> "chan int"]))
         ELSE LET buffer == m.text \o <<Tok("space")>>
                  cut == IF Len(buffer) > 0 /\ buffer[Len(buffer)] = Tok("space")
                         THEN SubSeq(buffer, 1, Len(buffer) - 1) ELSE buffer
              IN Parse(TextBytes(cut), "none")

(***************************************************************************)
(* Stringify and StringifyPretty                                           *)
(***************************************************************************)
\* json.Indent's newline: a line break, then the indent once per level
IndentNewline(indent, depth) ==
    IF depth > 0
    THEN <<Tok("newline"), [t |-> "indent", s |-> indent, n |-> depth]>>
    ELSE <<Tok("newline")>>

\* json.Indent over the compact text t from token p on; needIndent is set
\* after an opening bracket until the next token shows whether the
\* container is empty
RECURSIVE Indent(_, _, _, _, _)
Indent(t, p, indent, depth, needIndent) ==
    IF p > Len(t) THEN <<>>
    ELSE LET c == t[p]
             closing == c.t \in {"]", "}"}
             lead == IF needIndent /\ ~closing THEN IndentNewline(indent, depth) ELSE <<>>
         IN CASE c.t \in {"[", "{"} ->
                    lead \o <<c>> \o Indent(t, p + 1, indent, depth + 1, TRUE)
              [] c.t = "," ->
                    lead \o <<c>> \o IndentNewline(indent, depth)
                    \o Indent(t, p + 1, indent, depth, FALSE)
              [] c.t = ":" ->
                    lead \o <<c, Tok("space")>> \o Indent(t, p + 1, indent, depth, FALSE)
              [] closing ->
                    (IF needIndent THEN <<>> ELSE IndentNewline(indent, depth - 1))
                    \o <<c>> \o Indent(t, p + 1, indent, depth - 1, FALSE)
              [] OTHER -> lead \o <<c>> \o Indent(t, p + 1, indent, depth, FALSE)

\* json.MarshalIndent(v, "", indent): Marshal, then Indent
MarshalIndent(v, indent) ==
    LET m == Marshal(v) IN
    [ok |-> m.ok, text |-> IF m.ok THEN Indent(m.text, 1, indent, 0, FALSE) ELSE <<>>]

\* a variant of Stringify that wraps a failed value's error in its own
StringifyRetagged(v) ==
    IF v = Nil THEN [text |-> <<Tok("null")>>, err |-> NilErr]
    ELSE IF v.kind = "jsjson.JSONValue" /\ v.j.err # NilErr
    THEN [text |-> <<>>, err |-> JSONError("Stringify", v.j.err)]
    ELSE LET m == Marshal(IF v.kind = "jsjson.JSONValue" THEN v.j.data ELSE v) IN
         IF ~m.ok
         THEN [text |-> <<>>,
               err |-> JSONError("Stringify", [f |-> "json: unsupported type: %s",
                                               typ |-> "chan int"])]
         ELSE [text |-> m.text, err |-> NilErr]

\* Stringify(v): (string, error).  The encoder's output ends in a newline,
\* which is cut off the result
Stringify(v) ==
    IF v = Nil THEN [text |-> <<Tok("null")>>, err |-> NilErr]
    ELSE IF v.kind = "jsjson.JSONValue" /\ v.j.err # NilErr
    THEN [text |-> <<>>, err |-> v.j.err]
    ELSE LET val == IF v.kind = "jsjson.JSONValue" THEN v.j.data ELSE v
             m == Marshal(val)
         IN IF ~m.ok
            THEN [text |-> <<>>,
                  err |-> JSONError("Stringify", [f |-> "json: unsupported type: %s",
                                                  typ |-> "chan int"])]
            ELSE LET buffer == m.text \o <<Tok("newline")>>
                     result == IF Len(buffer) > 0 /\ buffer[Len(buffer)] = Tok("newline")
                               THEN SubSeq(buffer, 1, Len(buffer) - 1) ELSE buffer
                 IN [text |-> result, err |-> NilErr]

\* StringifyPretty(v, indent): (string, error)
StringifyPretty(v, indent) ==
    IF v = Nil THEN [text |-> <<Tok("null")>>, err |-> NilErr]
    ELSE IF v.kind = "jsjson.JSONValue" /\ v.j.err # NilErr
    THEN [text |-> <<>>, err |-> v.j.err]
    ELSE LET val == IF v.kind = "jsjson.JSONValue" THEN v.j.data ELSE v
             m == MarshalIndent(val, indent)
         IN IF ~m.ok
            THEN [text |-> <<>>,
                  err |-> JSONError("StringifyPretty",
                                    [f |-> "json: unsupported type: %s", typ |-> "chan int"])]
            ELSE [text |-> m.text, err |-> NilErr]

(***************************************************************************)
(* Bounds and input sets                                                   *)
(***************************************************************************)
\* longest path passed to Get, GetOr and Has
MaxPath == 3

\* longest path whose segments range over every kind of segment
MaxMixedPath == 2

\* longest array in a document
MaxLen == 2

SeqsUpTo(S, n) == UNION {[1..k -> S] : k \in 0..n}

MapsOver(K, S) == UNION {[ks -> S] : ks \in SUBSET K}

Keys == {<<"a">>, <<"b">>}

Floats == {MkFloat(0, 0), MkFloat(30, 0), MkFloat(425, 1), MkFloat(-425, 1)}

Strings == {<<>>, <<"3", "0">>, <<"a", "b", "c">>, <<"4", "2", ".", "5">>,
            <<"-", "7">>, <<"+", "5">>, <<"0", "7">>, <<"t", "r", "u", "e">>,
            <<"1">>, <<"F">>}

\* documents that are one scalar
Scalars == {Nil, MkBool(TRUE), MkBool(FALSE)} \cup Floats
           \cup {MkString(str) : str \in Strings}

\* the children of the container documents
Inner == {Nil, MkFloat(1, 0), MkString(<<>>),
          MkSlice(<<Nil, MkString(<<"x">>)>>),
          MkMap([k \in {<<"a">>} |-> MkFloat(1, 0)])}

Containers == {MkSlice(e) : e \in SeqsUpTo(Inner, MaxLen)}
              \cup {MkMap(f) : f \in MapsOver(Keys, Inner)}

\* the generic trees the decoder is asked to produce
Docs == Scalars \cup Containers

\* texts that are not the encoding of a document: malformed ones, and
\* well-formed ones with white space or a repeated key
OtherTexts ==
    {<<Tok("{")>>,
     <<Tok("invalid")>>,
     <<Tok("space")>>,
     <<Tok("null"), Tok("null")>>,
     <<Tok("["), NumTok(MkFloat(1, 0)), Tok(","), Tok("]")>>,
     <<Tok("{"), StrTok(<<"a">>), Tok("}")>>,
     <<Tok("space"), Tok("["), Tok("space"), Tok("true"), Tok("]"), Tok("space")>>,
     <<Tok("{"), StrTok(<<"a">>), Tok(":"), Tok("null"), Tok(","),
       StrTok(<<"a">>), Tok(":"), Tok("false"), Tok("}")>>}

Texts == {<<>>} \cup OtherTexts \cup {Encode(doc) : doc \in Docs}

\* Go values that are not generic trees, passed to Parse and Valid
GoValues == {MkInt(42), MkChan, MkSlice(<<MkInt(1), Nil>>),
             MkMap([k \in {<<"a">>} |-> MkInt(2)]), MkSlice(<<MkChan>>)}

\* inputs of Parse other than the encodings of the documents
OtherInputs(j) == {Nil, Wrapped(j)} \cup GoValues
                  \cup {TextString(text) : text \in {<<>>} \cup OtherTexts}
                  \cup {TextBytes(text) : text \in {<<>>} \cup OtherTexts}

ParseInputs(j) == OtherInputs(j) \cup {TextString(text) : text \in Texts}

\* the calls of Parse: every input without a destination, and the other
\* inputs with a nil destination and with one that is no pointer
ParseCalls(j) == (ParseInputs(j) \X {"none"}) \cup (OtherInputs(j) \X {"nil", "int"})

ValidData == (GoValues \ {MkSlice(<<MkChan>>)})
             \cup {Nil, MkString(<<"3", "0">>), MkFloat(-425, 1)}

InvalidErrs == {[f |-> "custom failure"], [f |-> "other failure"]}

\* path segments: a key, a string of digits, the integers from -1 up to the
\* longest array's length, a fractional float, a bool and nil
Segments == {MkString(<<"a">>), MkString(<<"1">>)}
            \cup {MkInt(i) : i \in (-1)..MaxLen}
            \cup {MkFloat(15, 1), MkBool(TRUE), Nil}

\* the segments of the longest paths
DeepSegments == {MkString(<<"a">>), MkInt(0), MkInt(-1), Nil}

\* segments tried as an index on their own: strings with a sign, a space, a
\* decimal point and no character at all, a negative fraction, and a nested
\* value
IndexSegments == {MkString(<<"-", "1">>), MkString(<<"+", "1">>), MkString(<<"-", "0">>),
                  MkString(<<" ", "1">>), MkString(<<"1", ".", "5">>), MkString(<<>>),
                  MkFloat(-15, 1), MkSlice(<<>>)}

Paths == SeqsUpTo(Segments, MaxMixedPath) \cup SeqsUpTo(DeepSegments, MaxPath)
         \cup {<<s>> : s \in IndexSegments}

\* the values passed to Stringify and StringifyPretty
StringifyInputs(j) == {Nil, Wrapped(j)} \cup GoValues

\* the indent strings passed to StringifyPretty
Indents == {<<" ", " ">>, <<>>}

GetOrDefaults == {MkString(<<"d", "e", "f">>)}

StringDefaults == {<<"f", "a", "l", "l", "b", "a", "c", "k">>}

IntDefaults == {0, 7}

FloatDefaults == {MkFloat(0, 0), MkFloat(5, 1)}

BoolDefaults == {TRUE, FALSE}

(***************************************************************************)
(* The state machine: a caller holds one JSONValue, calls an operation on  *)
(* it and then goes on with the receiver or with the value it obtained     *)
(***************************************************************************)
VARIABLES
    pc,      \* "idle": ready to call; "returned": a call has returned;
             \* "panicked": a call ended in a panic
    cur,     \* the JSONValue the caller holds, the receiver of the calls
    origin,  \* the constructor cur descends from
    call,    \* the last call: the operation and its arguments
    ret,     \* what the last call returned
    shared,  \* the JSONValue that concurrent goroutines all hold
    initial, \* what shared was when the goroutines started
    frames,  \* the locals of the calls in progress, one frame per goroutine
    gr,      \* per goroutine: where it is, the call it makes and its result
    heap,    \* the tables of the maps and the arrays of the slices allocated
    parsed,  \* a JSONValue whose tree is on the heap
    recv,    \* the receiver of To, Raw, GetOr and Clone: parsed or a Get on it
    destination, \* the destination of To, or the variable a result is kept in
    hc,      \* the last call on recv and what it returned
    bytesPool, \* the byte buffers that are in the pool
    buffers, \* the byte buffers: their bytes and their capacity
    inflight \* per goroutine: the call of Stringify, To or Clone it is in

\* the variables of the single caller and those of the concurrent readers
callerVars == <<pc, cur, origin, call, ret>>

readerVars == <<shared, initial, frames, gr>>

heapVars == <<heap, parsed, recv, destination, hc>>

poolVars == <<bytesPool, buffers, inflight>>

vars == <<pc, cur, origin, call, ret, shared, initial, frames, gr,
          heap, parsed, recv, destination, hc, bytesPool, buffers, inflight>>

\* the zero JSONValue of Go: no data and no error
ZeroValue == JSONValue(Nil, NilErr)

Init ==
    /\ pc = "idle"
    /\ cur = ZeroValue
    /\ origin = "zero"
    /\ call = [op |-> "none"]
    /\ ret = [none |-> TRUE]
    /\ shared = ZeroValue
    /\ initial = ZeroValue
    /\ frames = <<>>
    /\ gr = <<>>
    /\ heap = <<>>
    /\ parsed = ZeroValue
    /\ recv = ZeroValue
    /\ destination = Nil
    /\ hc = [pc |-> "start", op |-> "none"]
    /\ bytesPool = {}
    /\ buffers = <<>>
    /\ inflight = <<>>

Returns(c, r) ==
    /\ pc' = "returned"
    /\ call' = c
    /\ ret' = r
    /\ UNCHANGED <<cur, origin>>
    /\ UNCHANGED <<readerVars, heapVars, poolVars>>

MayPanic(c, r) ==
    /\ pc' = IF r.panicked THEN "panicked" ELSE "returned"
    /\ call' = c
    /\ ret' = r
    /\ UNCHANGED <<cur, origin>>
    /\ UNCHANGED <<readerVars, heapVars, poolVars>>

CallParse ==
    /\ pc = "idle"
    /\ \E c \in ParseCalls(cur) :
           Returns([op |-> "Parse", in |-> c[1], dest |-> c[2]], [val |-> Parse(c[1], c[2])])

CallMustParse ==
    /\ pc = "idle"
    /\ \E v \in OtherInputs(cur) \cup {TextString(Encode(doc)) : doc \in Scalars} :
           MayPanic([op |-> "MustParse", in |-> v, dest |-> "none"], MustParse(v, "none"))

CallValid ==
    /\ pc = "idle"
    /\ \E data \in ValidData :
           Returns([op |-> "Valid", data |-> data], [val |-> Valid(data)])

CallInvalid ==
    /\ pc = "idle"
    /\ \E err \in InvalidErrs :
           Returns([op |-> "Invalid", err |-> err], [val |-> Invalid(err)])

CallClone ==
    /\ pc = "idle"
    /\ Returns([op |-> "Clone"], [val |-> Clone(cur)])

CallIsValid ==
    /\ pc = "idle"
    /\ Returns([op |-> "IsValid"], [b |-> IsValid(cur)])

CallError ==
    /\ pc = "idle"
    /\ Returns([op |-> "Error"], [err |-> Error(cur)])

CallRaw ==
    /\ pc = "idle"
    /\ Returns([op |-> "Raw"], [raw |-> Raw(cur)])

CallIsNull ==
    /\ pc = "idle"
    /\ Returns([op |-> "IsNull"], [b |-> IsNull(cur)])

CallType ==
    /\ pc = "idle"
    /\ Returns([op |-> "Type"], [s |-> Type(cur)])

CallGet ==
    /\ pc = "idle"
    /\ \E keys \in Paths : MayPanic([op |-> "Get", keys |-> keys], GetCall(cur, keys))

CallGetOr ==
    /\ pc = "idle"
    /\ \E keys \in Paths, d \in GetOrDefaults :
           MayPanic([op |-> "GetOr", keys |-> keys, def |-> d],
                    [raw |-> GetOr(cur, d, keys), panicked |-> GetCall(cur, keys).panicked])

CallHas ==
    /\ pc = "idle"
    /\ \E keys \in Paths :
           MayPanic([op |-> "Has", keys |-> keys],
                    [b |-> Has(cur, keys), panicked |-> GetCall(cur, keys).panicked])

CallString ==
    /\ pc = "idle"
    /\ Returns([op |-> "String"], String(cur))

CallStringOr ==
    /\ pc = "idle"
    /\ \E d \in StringDefaults :
           Returns([op |-> "StringOr", def |-> d], [v |-> StringOr(cur, d)])

CallInt ==
    /\ pc = "idle"
    /\ Returns([op |-> "Int"], IntValue(cur))

CallIntOr ==
    /\ pc = "idle"
    /\ \E d \in IntDefaults : Returns([op |-> "IntOr", def |-> d], [v |-> IntOr(cur, d)])

CallFloat64 ==
    /\ pc = "idle"
    /\ Returns([op |-> "Float64"], Float64(cur))

CallFloat64Or ==
    /\ pc = "idle"
    /\ \E d \in FloatDefaults :
           Returns([op |-> "Float64Or", def |-> d], [v |-> Float64Or(cur, d)])

CallBool ==
    /\ pc = "idle"
    /\ Returns([op |-> "Bool"], Bool(cur))

CallBoolOr ==
    /\ pc = "idle"
    /\ \E d \in BoolDefaults : Returns([op |-> "BoolOr", def |-> d], [v |-> BoolOr(cur, d)])

CallArray ==
    /\ pc = "idle"
    /\ Returns([op |-> "Array"], Array(cur))

CallObject ==
    /\ pc = "idle"
    /\ Returns([op |-> "Object"], Object(cur))

CallStringify ==
    /\ pc = "idle"
    /\ \E v \in StringifyInputs(cur) :
           Returns([op |-> "Stringify", in |-> v], Stringify(v))

CallStringifyPretty ==
    /\ pc = "idle"
    /\ \E v \in StringifyInputs(cur), indent \in Indents :
           Returns([op |-> "StringifyPretty", in |-> v, indent |-> indent],
                   StringifyPretty(v, indent))

Constructors == {"Parse", "MustParse", "Valid", "Invalid"}

\* the JSONValues a call handed to its caller
Obtained(c, r) ==
    CASE c.op \in Constructors \cup {"Get", "Clone"} -> {r.val}
      [] c.op \in {"Array", "Object"} -> {r.v[k] : k \in DOMAIN r.v}
      [] OTHER -> {}

\* the caller drops the result and keeps the receiver for the next call
Keep ==
    /\ pc = "returned"
    /\ pc' = "idle"
    /\ call' = [op |-> "none"]
    /\ ret' = [none |-> TRUE]
    /\ UNCHANGED <<cur, origin>>
    /\ UNCHANGED <<readerVars, heapVars, poolVars>>

\* the caller chains: the next call is made on a value it obtained
Chain ==
    /\ pc = "returned"
    /\ \E j \in Obtained(call, ret) : cur' = j
    /\ origin' = CASE call.op \in {"Parse", "MustParse"} ->
                        IF call.in = Wrapped(cur) THEN origin ELSE "Parse"
                   [] call.op \in {"Valid", "Invalid"} -> call.op
                   [] OTHER -> origin
    /\ pc' = "idle"
    /\ call' = [op |-> "none"]
    /\ ret' = [none |-> TRUE]
    /\ UNCHANGED <<readerVars, heapVars, poolVars>>

Next ==
    \/ CallParse \/ CallMustParse \/ CallValid \/ CallInvalid \/ CallClone
    \/ CallIsValid \/ CallError \/ CallRaw \/ CallIsNull \/ CallType
    \/ CallGet \/ CallGetOr \/ CallHas
    \/ CallString \/ CallStringOr \/ CallInt \/ CallIntOr
    \/ CallFloat64 \/ CallFloat64Or \/ CallBool \/ CallBoolOr
    \/ CallArray \/ CallObject
    \/ CallStringify \/ CallStringifyPretty
    \/ Keep \/ Chain

Spec == Init /\ [][Next]_vars

(***************************************************************************)
(* Concurrent readers: goroutines that hold the same JSONValue and call    *)
(* its methods without coordination.  A method has a value receiver, so a  *)
(* call works on a copy of the struct; the maps and slices of the tree are *)
(* reached by reference and are read when the step that reads them runs.   *)
(***************************************************************************)
\* number of goroutines
Goroutines == 2

Readers == 1..Goroutines

\* a variant of Frame in which every call uses the same locals
FrameShared(t) == 1

\* the locals of a call (current, the loop index, the result under
\* construction) belong to the goroutine that makes the call
Frame(t) == t

\* a reference into a tree is the list of keys and zero-based indices that
\* lead from the root to a node
RECURSIVE Deref(_, _)
Deref(root, ref) ==
    IF ref = <<>> THEN root
    ELSE IF root.kind = "map[string]interface {}"
    THEN Deref(root.fields[ref[1].s], Tail(ref))
    ELSE Deref(root.elems[ref[1].i + 1], Tail(ref))

\* the tree root with the node at ref replaced by node
RECURSIVE Store(_, _, _)
Store(root, ref, node) ==
    IF ref = <<>> THEN node
    ELSE IF root.kind = "map[string]interface {}"
    THEN MkMap([root.fields EXCEPT ![ref[1].s] = Store(@, Tail(ref), node)])
    ELSE MkSlice([root.elems EXCEPT ![ref[1].i + 1] = Store(@, Tail(ref), node)])

\* a variant of MapIndex that enters an absent key with a nil value
MapIndexInserting(c, keyStr) ==
    IF keyStr \in DOMAIN c.fields
    THEN [value |-> c.fields[keyStr], exists |-> TRUE, after |-> c]
    ELSE [value |-> Nil, exists |-> FALSE,
          after |-> MkMap((keyStr :> Nil) @@ c.fields)]

\* the map index expression current, exists = c[keyStr]: the value, whether
\* the key is present, and the map after the expression was evaluated
MapIndex(c, keyStr) ==
    IF keyStr \in DOMAIN c.fields
    THEN [value |-> c.fields[keyStr], exists |-> TRUE, after |-> c]
    ELSE [value |-> Nil, exists |-> FALSE, after |-> c]

IterationFail(msg, i, after) ==
    [failed |-> TRUE, val |-> GetFail(msg, i).val, step |-> Nil, after |-> after]

\* one pass through the body of Get's loop, for the i-th segment key on the
\* node current: a failure with the value to return, or the step that leads
\* to the next node; after is the node current as the pass leaves it
GetIteration(current, key, i) ==
    LET pos == Position(i) IN
    IF current = Nil
    THEN IterationFail([f |-> "cannot access key %v on nil value at position %d",
                        key |-> key, pos |-> pos], i, current)
    ELSE CASE current.kind = "map[string]interface {}" ->
                IF key.kind # "string"
                THEN IterationFail(
                         [f |-> "key must be string for object access, got %T at position %d",
                          typ |-> key.kind, pos |-> pos], i, current)
                ELSE LET r == MapIndex(current, key.s) IN
                     IF ~r.exists
                     THEN IterationFail([f |-> "key %q not found at position %d",
                                         key |-> MkString(key.s), pos |-> pos], i, r.after)
                     ELSE [failed |-> FALSE, val |-> JSONValue(r.value, NilErr),
                           step |-> MkString(key.s), after |-> r.after]
           [] current.kind = "[]interface {}" ->
                LET c == convertToIndex(key)
                    n == Len(current.elems)
                IN
                IF c.cause # ""
                THEN IterationFail([f |-> "invalid array index %v at position %d: %v",
                                    key |-> key, pos |-> pos, cause |-> c.cause], i, current)
                ELSE IF ~IndexInBounds(c.idx, n)
                THEN IterationFail(
                         [f |-> "array index %d out of bounds (length: %d) at position %d",
                          idx |-> c.idx, len |-> n, pos |-> pos], i, current)
                ELSE [failed |-> FALSE, val |-> JSONValue(current.elems[c.idx + 1], NilErr),
                      step |-> MkInt(c.idx), after |-> current]
           [] OTHER ->
                IterationFail([f |-> "cannot access key %v on type %T at position %d",
                               key |-> key, typ |-> current.kind, pos |-> pos], i, current)

\* the trees the goroutines share: an object holding an array, an array
\* holding an object, a string and null
SharedTrees ==
    {MkMap((<<"a">> :> MkSlice(<<Nil, MkString(<<"x">>)>>)) @@ (<<"b">> :> MkFloat(1, 0))),
     MkSlice(<<MkMap(<<"a">> :> MkString(<<"3", "0">>)), MkBool(TRUE)>>),
     MkString(<<"3", "0">>),
     Nil}

\* the values the goroutines share: parsed documents and a failed value
SharedValues ==
    {Parse(TextString(Encode(tree)), "none") : tree \in SharedTrees}
    \cup {Parse(TextString(<<>>), "none")}

SharedPaths ==
    {<<>>,
     <<MkString(<<"a">>)>>,
     <<MkString(<<"a">>), MkInt(1)>>,
     <<MkString(<<"c">>)>>,
     <<MkInt(0), MkString(<<"a">>)>>,
     <<MkInt(2)>>}

WalkOps == {"Get", "GetOr", "Has"}

RangeOps == {"Array", "Object"}

ReadOps == {"String", "Int", "Float64", "Bool", "IsNull", "Type", "Stringify", "Clone"}

\* the calls a goroutine makes
WalkCalls ==
    {[op |-> "Get", keys |-> keys] : keys \in SharedPaths}
    \cup {[op |-> "GetOr", keys |-> keys, def |-> d] :
             keys \in {<<MkString(<<"c">>)>>, <<MkString(<<"a">>), MkInt(1)>>},
             d \in GetOrDefaults}
    \cup {[op |-> "Has", keys |-> keys] :
             keys \in {<<MkString(<<"c">>)>>, <<MkInt(0), MkString(<<"a">>)>>}}

\* what the caller of Get, GetOr or Has receives when Get's result is val
WalkResult(c, val) ==
    CASE c.op = "Get" -> val
      [] c.op = "GetOr" -> IF val.err # NilErr THEN c.def ELSE val.data
      [] c.op = "Has" -> IsValid(val)

\* what a method that reads its receiver in one step returns
ReadResult(j, c) ==
    CASE c.op = "String" -> String(j)
      [] c.op = "Int" -> IntValue(j)
      [] c.op = "Float64" -> Float64(j)
      [] c.op = "Bool" -> Bool(j)
      [] c.op = "IsNull" -> IsNull(j)
      [] c.op = "Type" -> Type(j)
      [] c.op = "Stringify" -> Stringify(Wrapped(j))
      [] c.op = "Clone" -> Clone(j)

NoCall == [op |-> "none"]

IdleReader == [pc |-> "idle", call |-> NoCall, out |-> Nil]

\* a frame that no call has written yet
EmptyFrame == [ref |-> <<>>, i |-> 1, result |-> <<>>, entries |-> <<>>]

Done(t, c, out) == gr' = [gr EXCEPT ![t] = [pc |-> "done", call |-> c, out |-> out]]

Running(t, c, where) == gr' = [gr EXCEPT ![t] = [pc |-> where, call |-> c, out |-> Nil]]

SharedInit ==
    /\ pc = "idle"
    /\ cur = ZeroValue
    /\ origin = "zero"
    /\ call = [op |-> "none"]
    /\ ret = [none |-> TRUE]
    /\ shared \in SharedValues
    /\ initial = shared
    /\ frames = [f \in Readers |-> EmptyFrame]
    /\ gr = [t \in Readers |-> IdleReader]
    /\ heap = <<>>
    /\ parsed = ZeroValue
    /\ recv = ZeroValue
    /\ destination = Nil
    /\ hc = [pc |-> "start", op |-> "none"]
    /\ bytesPool = {}
    /\ buffers = <<>>
    /\ inflight = <<>>

\* a goroutine calls Get, GetOr or Has: the receiver is copied, its error
\* and the length of the path are tested, and current is set to j.data
CallWalk(t) ==
    /\ gr[t].pc = "idle"
    /\ \E c \in WalkCalls :
           LET j == shared IN
           IF j.err # NilErr \/ Len(c.keys) = 0
           THEN /\ Done(t, c, WalkResult(c, j))
                /\ UNCHANGED frames
           ELSE /\ Running(t, c, "walk")
                /\ frames' = [frames EXCEPT ![Frame(t)] = [@ EXCEPT !.ref = <<>>, !.i = 1]]
    /\ UNCHANGED <<shared, initial>>
    /\ UNCHANGED <<callerVars, heapVars, poolVars>>

\* the test of Get's loop and one pass through its body
GetStep(t) ==
    /\ gr[t].pc = "walk"
    /\ LET f == frames[Frame(t)]
           c == gr[t].call
           current == Deref(shared.data, f.ref)
       IN IF f.i > Len(c.keys)
          THEN /\ Done(t, c, WalkResult(c, JSONValue(current, NilErr)))
               /\ UNCHANGED <<shared, frames>>
          ELSE LET r == GetIteration(current, c.keys[f.i], f.i) IN
               /\ shared' = [shared EXCEPT !.data = Store(@, f.ref, r.after)]
               /\ IF r.failed
                  THEN /\ Done(t, c, WalkResult(c, r.val))
                       /\ UNCHANGED frames
                  ELSE /\ frames' = [frames EXCEPT ![Frame(t)] =
                                        [@ EXCEPT !.ref = Append(f.ref, r.step),
                                                  !.i = f.i + 1]]
                       /\ UNCHANGED gr
    /\ UNCHANGED initial
    /\ UNCHANGED <<callerVars, heapVars, poolVars>>

\* a goroutine calls Array or Object: the receiver is copied, its error and
\* the type of its node are tested, and the result is allocated
CallRange(t) ==
    /\ gr[t].pc = "idle"
    /\ \E op \in RangeOps :
           LET j == shared
               c == [op |-> op]
               whole == IF op = "Array" THEN Array(j) ELSE Object(j)
           IN IF whole.err # NilErr
              THEN /\ Done(t, c, whole)
                   /\ UNCHANGED frames
              ELSE /\ Running(t, c, "range")
                   /\ frames' = [frames EXCEPT ![Frame(t)] =
                                    [@ EXCEPT !.i = 1, !.result = <<>>, !.entries = <<>>]]
    /\ UNCHANGED <<shared, initial>>
    /\ UNCHANGED <<callerVars, heapVars, poolVars>>

\* one pass of Array's loop over the slice: result[i] = JSONValue{data: item}
RangeArray(t) ==
    /\ gr[t].pc = "range"
    /\ gr[t].call.op = "Array"
    /\ LET f == frames[Frame(t)]
           arr == shared.data.elems
       IN IF f.i > Len(arr)
          THEN /\ Done(t, gr[t].call, [v |-> f.result, err |-> NilErr])
               /\ UNCHANGED frames
          ELSE /\ frames' = [frames EXCEPT ![Frame(t)] =
                                [@ EXCEPT !.result = Append(f.result,
                                                            JSONValue(arr[f.i], NilErr)),
                                          !.i = f.i + 1]]
               /\ UNCHANGED gr
    /\ UNCHANGED <<shared, initial>>
    /\ UNCHANGED <<callerVars, heapVars, poolVars>>

\* one pass of Object's loop over the map, which visits the keys in an
\* order of the runtime's choosing: result[key] = JSONValue{data: value}
RangeObject(t) ==
    /\ gr[t].pc = "range"
    /\ gr[t].call.op = "Object"
    /\ LET f == frames[Frame(t)]
           obj == shared.data.fields
           left == DOMAIN obj \ DOMAIN f.entries
       IN IF left = {}
          THEN /\ Done(t, gr[t].call, [v |-> f.entries, err |-> NilErr])
               /\ UNCHANGED frames
          ELSE /\ \E key \in left :
                      frames' = [frames EXCEPT ![Frame(t)] =
                                    [@ EXCEPT !.entries =
                                         (key :> JSONValue(obj[key], NilErr)) @@ f.entries]]
               /\ UNCHANGED gr
    /\ UNCHANGED <<shared, initial>>
    /\ UNCHANGED <<callerVars, heapVars, poolVars>>

\* a goroutine calls a method that reads the receiver and returns
CallRead(t) ==
    /\ gr[t].pc = "idle"
    /\ \E op \in ReadOps :
           LET c == [op |-> op] IN Done(t, c, ReadResult(shared, c))
    /\ UNCHANGED <<shared, initial, frames>>
    /\ UNCHANGED <<callerVars, heapVars, poolVars>>

\* the caller takes the result; the frame of the call is gone
Return(t) ==
    /\ gr[t].pc = "done"
    /\ gr' = [gr EXCEPT ![t] = IdleReader]
    /\ frames' = [frames EXCEPT ![Frame(t)] = EmptyFrame]
    /\ UNCHANGED <<shared, initial>>
    /\ UNCHANGED <<callerVars, heapVars, poolVars>>

SharedNext ==
    \/ \E t \in Readers : CallWalk(t)
    \/ \E t \in Readers : GetStep(t)
    \/ \E t \in Readers : CallRange(t)
    \/ \E t \in Readers : RangeArray(t)
    \/ \E t \in Readers : RangeObject(t)
    \/ \E t \in Readers : CallRead(t)
    \/ \E t \in Readers : Return(t)

SharedSpec == SharedInit /\ [][SharedNext]_vars

(***************************************************************************)
(* Maps and slices as references: To, Raw, GetOr and Clone                 *)
(***************************************************************************)
\* A Go map value points to its table and a slice value to its backing
\* array, so two values can be one container.  The heap is the sequence of
\* the tables and arrays allocated so far; a map or slice value on the heap
\* names the place of its table or array, and the members of a table or
\* array are such values in turn.
MapAt(a) == [kind |-> "map[string]interface {}", at |-> a]

SliceAt(a) == [kind |-> "[]interface {}", at |-> a]

\* the nil map and the nil slice
NilOf(typ) == [kind |-> typ, nil |-> TRUE]

OnHeap(r) == "at" \in DOMAIN r

\* the tree that the value r stands for on heap h
RECURSIVE Load(_, _)
Load(h, r) ==
    IF ~OnHeap(r) THEN r
    ELSE IF r.kind = "map[string]interface {}"
    THEN MkMap([k \in DOMAIN h[r.at].fields |-> Load(h, h[r.at].fields[k])])
    ELSE MkSlice([i \in DOMAIN h[r.at].elems |-> Load(h, h[r.at].elems[i])])

\* the members of the container at place a
Members(h, a) ==
    IF "fields" \in DOMAIN h[a]
    THEN {h[a].fields[k] : k \in DOMAIN h[a].fields}
    ELSE {h[a].elems[i] : i \in DOMAIN h[a].elems}

\* the places of the containers that can be reached from the value r
RECURSIVE Reach(_, _)
Reach(h, r) ==
    IF ~OnHeap(r) THEN {}
    ELSE {r.at} \cup UNION {Reach(h, m) : m \in Members(h, r.at)}

\* the decoder builds a tree: every array and object of it is a new
\* container
RECURSIVE Alloc(_, _)
RECURSIVE AllocElems(_, _)
RECURSIVE AllocFields(_, _, _)
Alloc(h, tree) ==
    CASE tree.kind = "[]interface {}" /\ "elems" \in DOMAIN tree ->
            LET c == AllocElems(h, tree.elems) IN
            [h |-> Append(c.h, [elems |-> c.refs]), r |-> SliceAt(Len(c.h) + 1)]
      [] tree.kind = "map[string]interface {}" /\ "fields" \in DOMAIN tree ->
            LET c == AllocFields(h, tree.fields, SortedKeys(DOMAIN tree.fields)) IN
            [h |-> Append(c.h, [fields |-> c.refs]), r |-> MapAt(Len(c.h) + 1)]
      [] OTHER -> [h |-> h, r |-> tree]

AllocElems(h, e) ==
    IF e = <<>> THEN [h |-> h, refs |-> <<>>]
    ELSE LET first == Alloc(h, e[1])
             rest == AllocElems(first.h, Tail(e))
         IN [h |-> rest.h, refs |-> <<first.r>> \o rest.refs]

AllocFields(h, f, ks) ==
    IF ks = <<>> THEN [h |-> h, refs |-> <<>>]
    ELSE LET first == Alloc(h, f[ks[1]])
             rest == AllocFields(first.h, f, Tail(ks))
         IN [h |-> rest.h, refs |-> (ks[1] :> first.r) @@ rest.refs]

\* Parse of a text: the decoded tree is allocated
ParseOnHeap(h, v) ==
    LET p == Parse(v, "none") IN
    IF p.err # NilErr THEN [h |-> h, val |-> p]
    ELSE LET a == Alloc(h, p.data) IN [h |-> a.h, val |-> JSONValue(a.r, NilErr)]

\* the value the walk of Get ends on: current = c[keyStr] and
\* current = c[idx] copy the member, which is the container itself when the
\* member is a map or a slice
RECURSIVE Follow(_, _, _)
Follow(h, current, keys) ==
    IF keys = <<>> THEN current
    ELSE IF current.kind = "map[string]interface {}"
    THEN Follow(h, h[current.at].fields[keys[1].s], Tail(keys))
    ELSE Follow(h, h[current.at].elems[convertToIndex(keys[1]).idx + 1], Tail(keys))

\* Get on a value whose tree is on the heap
GetOnHeap(h, j, keys) ==
    LET g == GetCall(JSONValue(Load(h, j.data), j.err), keys) IN
    IF j.err # NilErr THEN j
    ELSE IF g.val.err # NilErr \/ g.panicked THEN g.val
    ELSE JSONValue(Follow(h, j.data, keys), NilErr)

\* GetOr on a value whose tree is on the heap
GetOrOnHeap(h, j, defaultValue, keys) ==
    LET result == GetOnHeap(h, j, keys) IN
    IF result.err # NilErr THEN defaultValue ELSE result.data

\* a variant of CloneOnHeap that wraps the receiver's tree once more
CloneSharing(h, j) == [h |-> h, val |-> JSONValue(j.data, j.err)]

\* Clone on a value whose tree is on the heap: the tree is encoded, and
\* Parse allocates what it decodes
CloneOnHeap(h, j) ==
    IF j.err # NilErr THEN [h |-> h, val |-> j]
    ELSE LET c == Clone(JSONValue(Load(h, j.data), NilErr)) IN
         IF c.err # NilErr THEN [h |-> h, val |-> c]
         ELSE LET a == Alloc(h, c.data) IN [h |-> a.h, val |-> JSONValue(a.r, NilErr)]

\* the struct of the tests, with its first two fields:
\* type User struct { Name string `json:"name"`; Age int `json:"age"` }
MkUser(name, age) == [kind |-> "User", Name |-> MkString(name), Age |-> MkInt(age)]

NameKey == <<"n", "a", "m", "e">>

AgeKey == <<"a", "g", "e">>

\* what json.Unmarshal did to a destination: the heap, the destination's
\* value and the first error, NilErr.msg when there is none
Decoded(h, val) == [h |-> h, val |-> val, err |-> NilErr.msg]

\* an UnmarshalTypeError; the destination keeps its value
DecodeMismatch(h, old, tree, typ) ==
    [h |-> h, val |-> old,
     err |-> [f |-> "json: cannot unmarshal %s into Go value of type %s",
              value |-> tree, typ |-> typ]]

\* decoding into a string, float64, int or bool: null leaves the value as
\* it is, a number fits an int when its text is an integer literal
DecodeScalar(h, old, typ, tree) ==
    CASE tree.kind = "nil" -> Decoded(h, old)
      [] typ = "string" /\ tree.kind = "string" -> Decoded(h, tree)
      [] typ = "float64" /\ tree.kind = "float64" -> Decoded(h, tree)
      [] typ = "bool" /\ tree.kind = "bool" -> Decoded(h, tree)
      [] typ = "int" /\ tree.kind = "float64" /\ tree.d = 0 -> Decoded(h, MkInt(tree.m))
      [] OTHER -> DecodeMismatch(h, old, tree, typ)

\* decoding into a User: the members named like a field are decoded into
\* that field in the order of the text, the others are skipped, and the
\* first error is kept while decoding goes on
DecodeUser(h, old, tree) ==
    IF tree.kind = "nil" THEN Decoded(h, old)
    ELSE IF tree.kind # "map[string]interface {}" THEN DecodeMismatch(h, old, tree, "User")
    ELSE LET age == IF AgeKey \in DOMAIN tree.fields
                    THEN DecodeScalar(h, old.Age, "int", tree.fields[AgeKey])
                    ELSE Decoded(h, old.Age)
             name == IF NameKey \in DOMAIN tree.fields
                     THEN DecodeScalar(h, old.Name, "string", tree.fields[NameKey])
                     ELSE Decoded(h, old.Name)
         IN [h |-> h,
             val |-> [kind |-> "User", Name |-> name.val, Age |-> age.val],
             err |-> IF age.err # NilErr.msg THEN age.err ELSE name.err]

\* decoding into a map[string]interface{}: null makes it the nil map; an
\* object is entered into the map the destination holds, which is made
\* first when the destination is nil, every member being a new value
DecodeMap(h, old, tree) ==
    IF tree.kind = "nil" THEN Decoded(h, NilOf("map[string]interface {}"))
    ELSE IF tree.kind # "map[string]interface {}"
    THEN DecodeMismatch(h, old, tree, "map[string]interface {}")
    ELSE IF ~OnHeap(old) THEN Decoded(Alloc(h, tree).h, Alloc(h, tree).r)
    ELSE LET c == AllocFields(h, tree.fields, SortedKeys(DOMAIN tree.fields)) IN
         Decoded([c.h EXCEPT ![old.at] = [fields |-> c.refs @@ c.h[old.at].fields]], old)

\* decoding into an interface{} or a nil []interface{}: the decoded tree is
\* a new value
DecodeInto(h, old, typ, tree) ==
    CASE typ = "interface {}" -> Decoded(Alloc(h, tree).h, Alloc(h, tree).r)
      [] typ = "[]interface {}" ->
            IF tree.kind = "nil" THEN Decoded(h, NilOf("[]interface {}"))
            ELSE IF tree.kind # "[]interface {}" THEN DecodeMismatch(h, old, tree, typ)
            ELSE Decoded(Alloc(h, tree).h, Alloc(h, tree).r)
      [] typ = "map[string]interface {}" -> DecodeMap(h, old, tree)
      [] typ = "User" -> DecodeUser(h, old, tree)
      [] OTHER -> DecodeScalar(h, old, typ, tree)

\* a pointer to a variable of type elem that holds val
PointerTo(elem, val) == [kind |-> "ptr", elem |-> elem, val |-> val]

\* a variant of AssignableTo without the rule for interface types
AssignableIdentical(src, typ) == src = typ

\* reflect's Type.AssignableTo for the types at hand: the types are
\* identical, or the destination is an interface{}, which every type
\* implements
AssignableTo(src, typ) == src = typ \/ typ = "interface {}"

\* a variant of Set that stores a copy of the value
SetCopy(h, srcValue) == Alloc(h, Load(h, srcValue))

\* destElem.Set(srcValue): the value is copied, a map or slice value being
\* the reference to its container
Set(h, srcValue) == [h |-> h, r |-> srcValue]

\* what a call of To did: the heap, the error returned, the destination
\* after the call and the path taken
ToResult(h, err, dest, path) == [h |-> h, err |-> err, dest |-> dest, path |-> path]

ToFail(h, dest, msg, path) == ToResult(h, JSONError("To", msg), dest, path)

\* To(dest); dest is Nil for a nil destination, a pointer, or a value that
\* is no pointer
To(h, j, dest) ==
    IF j.err # NilErr THEN ToFail(h, dest, [f |-> "%v", err |-> j.err], "none")
    ELSE IF dest = Nil THEN ToFail(h, dest, [f |-> "destination cannot be nil"], "none")
    ELSE IF dest.kind # "ptr"
    THEN ToFail(h, dest, [f |-> "destination must be a pointer, got %T", typ |-> dest.kind],
                "none")
    ELSE IF j.data # Nil /\ AssignableTo(j.data.kind, dest.elem)
    THEN LET s == Set(h, j.data) IN
         ToResult(s.h, NilErr, [dest EXCEPT !.val = s.r], "fast")
    ELSE LET m == Marshal(Load(h, j.data))
             buffer == m.text \o <<Tok("space")>>
             cut == IF Len(buffer) > 0 /\ buffer[Len(buffer)] = Tok("space")
                    THEN SubSeq(buffer, 1, Len(buffer) - 1) ELSE buffer
             u == Unmarshal(cut)
             d == DecodeInto(h, dest.val, dest.elem, u.v)
         IN IF ~m.ok
            THEN ToFail(h, dest, [f |-> "failed to marshal data: %w",
                                  typ |-> "chan int"], "slow")
            ELSE IF ~u.ok
            THEN ToFail(h, dest, [f |-> "failed to unmarshal into destination: %w",
                                  cause |-> [f |-> "json: syntax error"]], "slow")
            ELSE IF d.err # NilErr.msg
            THEN ToFail(d.h, [dest EXCEPT !.val = d.val],
                        [f |-> "failed to unmarshal into destination: %w",
                         cause |-> d.err], "slow")
            ELSE ToResult(d.h, NilErr, [dest EXCEPT !.val = d.val], "slow")

\* a variant of MustTo that returns whatever To returns
MustToReturns(h, j, dest) == [res |-> To(h, j, dest), panicked |-> FALSE]

\* MustTo panics with the error of To
MustTo(h, j, dest) ==
    LET err == To(h, j, dest).err IN
    [res |-> To(h, j, dest), panicked |-> err # NilErr]

TagsKey == <<"t", "a", "g", "s">>

\* the documents parsed: users that fit and do not fit the struct,
\* containers within containers, and scalars
HeapDocs ==
    {MkMap((NameKey :> MkString(<<"A", "l">>)) @@ (AgeKey :> MkFloat(30, 0))),
     MkMap((NameKey :> MkFloat(30, 0)) @@ (AgeKey :> MkFloat(15, 1))),
     MkMap((TagsKey :> MkSlice(<<MkString(<<"x">>), Nil>>)) @@ (AgeKey :> MkFloat(30, 0))),
     MkSlice(<<MkMap(NameKey :> MkString(<<"A", "l">>)), MkFloat(1, 0)>>),
     MkMap(<<>>), MkSlice(<<>>),
     MkString(<<"A", "l">>), MkFloat(30, 0), MkFloat(15, 1), MkBool(TRUE), Nil}

HeapInputs == {TextString(Encode(doc)) : doc \in HeapDocs} \cup {TextString(<<Tok("{")>>)}

\* Go values handed to Valid that no decoder produces
HeapValidData == {MkInt(42), MkChan}

\* the paths from the parsed value to the receiver
HeapPaths == {<<MkString(NameKey)>>, <<MkString(AgeKey)>>, <<MkString(TagsKey)>>,
              <<MkInt(0)>>, <<MkString(TagsKey), MkInt(1)>>, <<MkString(<<"z">>)>>}

\* the variables To is given a pointer to, with the values they hold
DestVars ==
    {<<"interface {}", Nil>>,
     <<"map[string]interface {}", NilOf("map[string]interface {}")>>,
     <<"map[string]interface {}", MkMap(AgeKey :> MkString(<<"o">>))>>,
     <<"[]interface {}", NilOf("[]interface {}")>>,
     <<"string", MkString(<<"o">>)>>,
     <<"float64", MkFloat(0, 0)>>,
     <<"int", MkInt(7)>>,
     <<"bool", MkBool(FALSE)>>,
     <<"User", MkUser(<<>>, 0)>>,
     <<"User", MkUser(<<"o">>, 7)>>}

\* the destinations of To: nil, values that are no pointers, and pointers
Destinations == {Nil, MkUser(<<>>, 0), MkInt(7)}
                \cup {PointerTo(d[1], d[2]) : d \in DestVars}

\* the destination as it is when To is called: a map it holds is on the heap
Declared(h, d) ==
    IF d = Nil \/ d.kind # "ptr" THEN [h |-> h, dest |-> d]
    ELSE [h |-> Alloc(h, d.val).h, dest |-> PointerTo(d.elem, Alloc(h, d.val).r)]

\* the value written through a destination
Written == MkString(<<"x", "x">>)

\* the value a variable holds: what a pointer points to, or the tree of a
\* JSONValue
HeldBy(d) ==
    IF d = Nil THEN Nil
    ELSE IF d.kind = "ptr" THEN d.val
    ELSE IF d.kind = "jsjson.JSONValue" THEN d.j.data
    ELSE d

\* the places to write to in the container at a: its keys and a new one,
\* or its indexes
Slots(h, a) ==
    IF "fields" \in DOMAIN h[a]
    THEN {MkString(k) : k \in DOMAIN h[a].fields \cup {<<"k">>}}
    ELSE {MkInt(i - 1) : i \in DOMAIN h[a].elems}

\* m[key] = v and s[idx] = v
Assign(h, a, slot, v) ==
    IF "fields" \in DOMAIN h[a]
    THEN [h EXCEPT ![a] = [fields |-> (slot.s :> v) @@ h[a].fields]]
    ELSE [h EXCEPT ![a] = [elems |-> [h[a].elems EXCEPT ![slot.i + 1] = v]]]

HeapInit ==
    /\ pc = "idle"
    /\ cur = ZeroValue
    /\ origin = "zero"
    /\ call = [op |-> "none"]
    /\ ret = [none |-> TRUE]
    /\ shared = ZeroValue
    /\ initial = ZeroValue
    /\ frames = <<>>
    /\ gr = <<>>
    /\ heap = <<>>
    /\ parsed = ZeroValue
    /\ recv = ZeroValue
    /\ destination = Nil
    /\ hc = [pc |-> "start", op |-> "none"]
    /\ bytesPool = {}
    /\ buffers = <<>>
    /\ inflight = <<>>

\* parsed := Parse(text)
ObjParse ==
    /\ hc.pc = "start"
    /\ \E v \in HeapInputs :
          \E p \in {ParseOnHeap(heap, v)} :
              /\ heap' = p.h
              /\ parsed' = p.val
              /\ recv' = p.val
    /\ hc' = [pc |-> "idle", op |-> "Parse", from |-> "Parse", via |-> <<>>]
    /\ UNCHANGED destination
    /\ UNCHANGED <<callerVars, readerVars, poolVars>>

\* parsed := Valid(data)
ObjValid ==
    /\ hc.pc = "start"
    /\ \E data \in HeapValidData :
          /\ parsed' = Valid(data)
          /\ recv' = Valid(data)
    /\ hc' = [pc |-> "idle", op |-> "Valid", from |-> "Valid", via |-> <<>>]
    /\ UNCHANGED <<heap, destination>>
    /\ UNCHANGED <<callerVars, readerVars, poolVars>>

\* the receiver of the next call is parsed.Get(keys...)
RecvGet ==
    /\ hc.pc = "idle"
    /\ hc.op # "Get"
    /\ \E keys \in HeapPaths :
          /\ recv' = GetOnHeap(heap, parsed, keys)
          /\ hc' = [pc |-> "idle", op |-> "Get", from |-> hc.from, via |-> keys]
    /\ UNCHANGED <<heap, parsed, destination>>
    /\ UNCHANGED <<callerVars, readerVars, poolVars>>

\* what the caller knows after a call: the call, what parsed's tree and the
\* destination were before it, and what it returned
AfterCall(op, d, res, panicked) ==
    [pc |-> IF panicked THEN "panicked" ELSE "returned",
     op |-> op, from |-> hc.from, via |-> hc.via, keys |-> <<>>,
     err |-> res.err, path |-> res.path,
     before |-> d.dest, h0 |-> d.h, tree |-> Load(heap, parsed.data)]

\* err := recv.To(dest)
CallTo ==
    /\ hc.pc = "idle"
    /\ \E d \in Destinations :
          \E decl \in {Declared(heap, d)} :
              \E res \in {To(decl.h, recv, decl.dest)} :
                  /\ heap' = res.h
                  /\ destination' = res.dest
                  /\ hc' = AfterCall("To", decl, res, FALSE)
    /\ UNCHANGED <<parsed, recv>>
    /\ UNCHANGED <<callerVars, readerVars, poolVars>>

\* recv.MustTo(dest)
CallMustTo ==
    /\ hc.pc = "idle"
    /\ \E d \in Destinations :
          \E decl \in {Declared(heap, d)} :
              \E m \in {MustTo(decl.h, recv, decl.dest)} :
                  /\ heap' = m.res.h
                  /\ destination' = m.res.dest
                  /\ hc' = AfterCall("MustTo", decl, m.res, m.panicked)
    /\ UNCHANGED <<parsed, recv>>
    /\ UNCHANGED <<callerVars, readerVars, poolVars>>

\* raw := recv.Raw(), and raw := recv.GetOr(defaultValue, keys...)
KeptResult(op, keys, raw) ==
    /\ destination' = PointerTo("interface {}", raw)
    /\ hc' = [pc |-> "returned", op |-> op, from |-> hc.from, via |-> hc.via,
              keys |-> keys,
              err |-> NilErr, path |-> "none", before |-> Nil, h0 |-> heap,
              tree |-> Load(heap, parsed.data)]
    /\ UNCHANGED <<heap, parsed, recv>>
    /\ UNCHANGED <<callerVars, readerVars, poolVars>>

CallRawOnHeap ==
    /\ hc.pc = "idle"
    /\ KeptResult("Raw", <<>>, Raw(recv))

CallGetOrOnHeap ==
    /\ hc.pc = "idle"
    /\ \E keys \in HeapPaths \cup {<<>>}, d \in GetOrDefaults :
          KeptResult("GetOr", keys, GetOrOnHeap(heap, recv, d, keys))

\* c := recv.Clone()
CallCloneOnHeap ==
    /\ hc.pc = "idle"
    /\ \E c \in {CloneOnHeap(heap, recv)} :
          /\ heap' = c.h
          /\ destination' = Wrapped(c.val)
    /\ hc' = [pc |-> "returned", op |-> "Clone", from |-> hc.from, via |-> hc.via,
              keys |-> <<>>,
              err |-> NilErr, path |-> "none", before |-> Nil, h0 |-> heap,
              tree |-> Load(heap, parsed.data)]
    /\ UNCHANGED <<parsed, recv>>
    /\ UNCHANGED <<callerVars, readerVars, poolVars>>

\* the caller writes to a container it reaches from what the call gave it
WriteThrough ==
    /\ hc.pc = "returned"
    /\ \E a \in Reach(heap, HeldBy(destination)) :
          \E slot \in Slots(heap, a) :
              /\ heap' = Assign(heap, a, slot, Written)
              /\ hc' = [pc |-> "written", at |-> a, slot |-> slot] @@ hc
    /\ UNCHANGED <<parsed, recv, destination>>
    /\ UNCHANGED <<callerVars, readerVars, poolVars>>

HeapNext ==
    \/ ObjParse \/ ObjValid \/ RecvGet
    \/ CallTo \/ CallMustTo \/ CallRawOnHeap \/ CallGetOrOnHeap \/ CallCloneOnHeap
    \/ WriteThrough

HeapSpec == HeapInit /\ [][HeapNext]_vars

(***************************************************************************)
(* The pool of byte buffers: Stringify, To and Clone step by step          *)
(***************************************************************************)
\* the capacity bytesPool.New makes a buffer with, and the capacity below
\* which Stringify makes a new one
NewCap == 1024

MinCap == 512

Callers == 1..Goroutines

\* a pointer to a byte slice that is in the pool or in a caller's hands
BufferIds == 1..Goroutines

\* bytesPool.New: make([]byte, 0, 1024)
NewBuffer == [bytes |-> <<>>, cap |-> NewCap]

\* bytesWriter.Write: *w.buf = append(*w.buf, p...)
Write(b, p) ==
    [bytes |-> b.bytes \o p,
     cap |-> IF Len(b.bytes) + Len(p) > b.cap THEN Len(b.bytes) + Len(p) ELSE b.cap]

\* a variant of putBytesBuffer that puts the buffer back as it is
putBytesBufferAsIs(b) == b

\* putBytesBuffer: *b = (*b)[:0], the buffer as it goes back to the pool
putBytesBuffer(b) == [bytes |-> <<>>, cap |-> b.cap]

\* the buffer without the newline the encoder ends its output with
TrimNewline(bytes) ==
    IF Len(bytes) > 0 /\ bytes[Len(bytes)] = Tok("newline")
    THEN SubSeq(bytes, 1, Len(bytes) - 1) ELSE bytes

\* a call of Stringify, To or Clone: v is the argument of Stringify, and
\* the receiver of To and Clone
PoolCall(op, v, d) == [op |-> op, v |-> v, dest |-> d]

PoolCalls ==
    {PoolCall("Stringify", MkSlice(<<Nil, MkString(<<"x">>)>>), Nil),
     PoolCall("Stringify", MkChan, Nil),
     PoolCall("Stringify", Nil, Nil),
     PoolCall("Clone", Wrapped(JSONValue(MkMap(<<"a">> :> MkFloat(1, 0)), NilErr)), Nil),
     PoolCall("Clone", Wrapped(Invalid([f |-> "custom failure"])), Nil),
     PoolCall("To", Wrapped(JSONValue(MkFloat(30, 0), NilErr)), PointerTo("int", MkInt(7))),
     PoolCall("To", Wrapped(JSONValue(MkString(<<"x">>), NilErr)), PointerTo("int", MkInt(7))),
     PoolCall("To", Wrapped(JSONValue(MkString(<<"x">>), NilErr)),
              PointerTo("string", MkString(<<>>)))}

\* what To hands back to its caller: the error and the destination
ToOutcome(err, d) == [err |-> err, dest |-> d]

\* the call in one step, as the sections above have it
Whole(c) ==
    CASE c.op = "Stringify" -> Stringify(c.v)
      [] c.op = "Clone" -> Clone(c.v.j)
      [] c.op = "To" -> ToOutcome(To(<<>>, c.v.j, c.dest).err, To(<<>>, c.v.j, c.dest).dest)

\* the call gets as far as getBytesBuffer
TakesBuffer(c) ==
    CASE c.op = "Stringify" -> c.v # Nil /\ ~(c.v.kind = "jsjson.JSONValue" /\ c.v.j.err # NilErr)
      [] c.op = "Clone" -> c.v.j.err = NilErr
      [] c.op = "To" -> To(<<>>, c.v.j, c.dest).path = "slow"

\* the value the call encodes
Encoded(c) == IF c.v.kind = "jsjson.JSONValue" THEN c.v.j.data ELSE c.v

NoPoolCall == PoolCall("none", Nil, Nil)

\* a goroutine between two calls
IdleCaller == [pc |-> "idle", call |-> NoPoolCall, buf |-> 0, at0 |-> -1, out |-> Nil]

PoolInit ==
    /\ pc = "idle"
    /\ cur = ZeroValue
    /\ origin = "zero"
    /\ call = [op |-> "none"]
    /\ ret = [none |-> TRUE]
    /\ shared = ZeroValue
    /\ initial = ZeroValue
    /\ frames = <<>>
    /\ gr = <<>>
    /\ heap = <<>>
    /\ parsed = ZeroValue
    /\ recv = ZeroValue
    /\ destination = Nil
    /\ hc = [pc |-> "start", op |-> "none"]
    /\ bytesPool = {}
    /\ buffers = [b \in BufferIds |-> NewBuffer]
    /\ inflight = [t \in Callers |-> IdleCaller]

\* the buffers in the hands of a call
Taken == {inflight[t].buf : t \in {u \in Callers : inflight[u].pc \in
                                      {"prepare", "encode", "trim", "decode", "put"}}}

\* a goroutine calls Stringify, To or Clone; the call returns at once when
\* it ends before getBytesBuffer
BeginCall(t) ==
    /\ inflight[t].pc = "idle"
    /\ \E c \in PoolCalls :
          inflight' = [inflight EXCEPT ![t] =
                          IF TakesBuffer(c)
                          THEN [IdleCaller EXCEPT !.pc = "get", !.call = c]
                          ELSE [IdleCaller EXCEPT !.pc = "done", !.call = c, !.out = Whole(c)]]
    /\ UNCHANGED <<bytesPool, buffers>>
    /\ UNCHANGED <<callerVars, readerVars, heapVars>>

\* getBytesBuffer: bytesPool.Get() hands out a buffer of the pool, which
\* leaves the pool, or a buffer that New makes
GetBuffer(t) ==
    /\ inflight[t].pc = "get"
    /\ \/ \E b \in bytesPool :
             /\ bytesPool' = bytesPool \ {b}
             /\ inflight' = [inflight EXCEPT ![t].pc = "prepare", ![t].buf = b]
             /\ UNCHANGED buffers
       \/ \E b \in BufferIds \ (bytesPool \cup Taken) :
             /\ buffers' = [buffers EXCEPT ![b] = NewBuffer]
             /\ inflight' = [inflight EXCEPT ![t].pc = "prepare", ![t].buf = b]
             /\ UNCHANGED bytesPool
    /\ UNCHANGED <<callerVars, readerVars, heapVars>>

\* before encoding, To and Clone cut the buffer to length 0, and Stringify
\* makes a new slice when the capacity is below 512
PrepareBuffer(t) ==
    /\ inflight[t].pc = "prepare"
    /\ LET b == inflight[t].buf IN
       buffers' = [buffers EXCEPT ![b] =
                      IF inflight[t].call.op = "Stringify"
                      THEN IF buffers[b].cap < MinCap THEN NewBuffer ELSE buffers[b]
                      ELSE [bytes |-> <<>>, cap |-> buffers[b].cap]]
    /\ inflight' = [inflight EXCEPT ![t].pc = "encode"]
    /\ UNCHANGED bytesPool
    /\ UNCHANGED <<callerVars, readerVars, heapVars>>

\* the error a call returns when the encoder fails
EncodeError(c) ==
    LET err == JSONError(c.op, [f |-> "json: unsupported type: %s", typ |-> "chan int"]) IN
    CASE c.op = "Stringify" -> [text |-> <<>>, err |-> err]
      [] c.op = "Clone" -> JSONValue(Nil, err)
      [] c.op = "To" -> ToOutcome(JSONError("To", [f |-> "failed to marshal data: %w",
                                                   typ |-> "chan int"]), c.dest)

\* encoder.Encode: the text and a newline go to the buffer in one Write,
\* and nothing is written when the value cannot be encoded
EncodeToBuffer(t) ==
    /\ inflight[t].pc = "encode"
    /\ LET b == inflight[t].buf
           m == Marshal(Encoded(inflight[t].call))
       IN IF ~m.ok
          THEN /\ inflight' = [inflight EXCEPT ![t].pc = "put",
                                               ![t].out = EncodeError(inflight[t].call)]
               /\ UNCHANGED buffers
          ELSE /\ buffers' = [buffers EXCEPT ![b] = Write(@, m.text \o <<Tok("newline")>>)]
               /\ inflight' = [inflight EXCEPT ![t].pc = "trim",
                                               ![t].at0 = Len(buffers[b].bytes)]
    /\ UNCHANGED bytesPool
    /\ UNCHANGED <<callerVars, readerVars, heapVars>>

\* the trailing newline is cut: Stringify cuts its own slice of the buffer
\* and copies it into the string it returns, To and Clone cut the buffer
CutNewline(t) ==
    /\ inflight[t].pc = "trim"
    /\ LET b == inflight[t].buf IN
       IF inflight[t].call.op = "Stringify"
       THEN /\ inflight' = [inflight EXCEPT
                               ![t].pc = "put",
                               ![t].out = [text |-> TrimNewline(buffers[b].bytes),
                                           err |-> NilErr]]
            /\ UNCHANGED buffers
       ELSE /\ buffers' = [buffers EXCEPT ![b].bytes = TrimNewline(@)]
            /\ inflight' = [inflight EXCEPT ![t].pc = "decode"]
    /\ UNCHANGED bytesPool
    /\ UNCHANGED <<callerVars, readerVars, heapVars>>

\* what To returns after json.Unmarshal(*buffer, dest)
UnmarshalInto(bytes, d) ==
    LET u == Unmarshal(bytes)
        r == DecodeInto(<<>>, d.val, d.elem, u.v)
    IN IF ~u.ok
       THEN ToOutcome(JSONError("To", [f |-> "failed to unmarshal into destination: %w",
                                       cause |-> [f |-> "json: syntax error"]]), d)
       ELSE IF r.err # NilErr.msg
       THEN ToOutcome(JSONError("To", [f |-> "failed to unmarshal into destination: %w",
                                       cause |-> r.err]),
                      [d EXCEPT !.val = r.val])
       ELSE ToOutcome(NilErr, [d EXCEPT !.val = r.val])

\* the buffer is decoded: json.Unmarshal(*buffer, dest) in To and
\* Parse(*buffer) in Clone; both copy what they keep
DecodeBuffer(t) ==
    /\ inflight[t].pc = "decode"
    /\ LET bytes == buffers[inflight[t].buf].bytes
           c == inflight[t].call
       IN inflight' = [inflight EXCEPT
                          ![t].pc = "put",
                          ![t].out = IF c.op = "To" THEN UnmarshalInto(bytes, c.dest)
                                     ELSE Parse(TextBytes(bytes), "none")]
    /\ UNCHANGED <<bytesPool, buffers>>
    /\ UNCHANGED <<callerVars, readerVars, heapVars>>

\* the deferred putBytesBuffer(buffer), and the call returns
PutBuffer(t) ==
    /\ inflight[t].pc = "put"
    /\ LET b == inflight[t].buf IN
       /\ buffers' = [buffers EXCEPT ![b] = putBytesBuffer(@)]
       /\ bytesPool' = bytesPool \cup {b}
    /\ inflight' = [inflight EXCEPT ![t].pc = "done"]
    /\ UNCHANGED <<callerVars, readerVars, heapVars>>

\* the caller takes the result and is ready for its next call
EndCall(t) ==
    /\ inflight[t].pc = "done"
    /\ inflight' = [inflight EXCEPT ![t] = IdleCaller]
    /\ UNCHANGED <<bytesPool, buffers>>
    /\ UNCHANGED <<callerVars, readerVars, heapVars>>

\* sync.Pool may drop a buffer at any time
DropPooled ==
    /\ \E b \in bytesPool : bytesPool' = bytesPool \ {b}
    /\ UNCHANGED <<buffers, inflight>>
    /\ UNCHANGED <<callerVars, readerVars, heapVars>>

PoolNext ==
    \/ \E t \in Callers : BeginCall(t)
    \/ \E t \in Callers : GetBuffer(t)
    \/ \E t \in Callers : PrepareBuffer(t)
    \/ \E t \in Callers : EncodeToBuffer(t)
    \/ \E t \in Callers : CutNewline(t)
    \/ \E t \in Callers : DecodeBuffer(t)
    \/ \E t \in Callers : PutBuffer(t)
    \/ \E t \in Callers : EndCall(t)
    \/ DropPooled

PoolSpec == PoolInit /\ [][PoolNext]_vars

(***************************************************************************)
(* Properties                                                              *)
(***************************************************************************)
Returned(op) == pc = "returned" /\ call.op = op

\* op was called, whether it returned or not
Called(op) == pc # "idle" /\ call.op = op

Coercions == {"String", "Int", "Float64", "Bool", "Array", "Object"}

\* C1: sticky propagation.  A Get (with any path) or a Clone on a failed
\* receiver returns a failed value with the receiver's error, and String,
\* Int, Float64, Bool, Array and Object on a failed receiver return that very
\* error.  The receivers range over every failed value a chain of calls can
\* reach, so the error survives any sequence of calls.
StickyPropagation ==
    (pc = "returned" /\ cur.err # NilErr) =>
        /\ call.op \in {"Get", "Clone"} =>
              /\ ret.val.err # NilErr
              /\ ret.val.err.op = cur.err.op
              /\ ret.val.err.msg = cur.err.msg
        /\ call.op \in Coercions => ret.err = cur.err

StickyWitness ==
    /\ Returned("Get")
    /\ cur.err # NilErr
    /\ cur.err.op = "Get"
    /\ Len(call.keys) > 0
    /\ ret.val.err = cur.err

NeverPanics == {"Get", "GetOr", "Has", "String", "Int", "Float64", "Bool",
                "Array", "Object", "IsNull", "Type"}

\* C2: no panic.  Get, GetOr, Has, String, Int, Float64, Bool, Array,
\* Object, IsNull and Type return normally on every receiver and every path,
\* and Get examines at most len(path) segments.
NoPanic ==
    call.op \in NeverPanics =>
        /\ pc = "returned"
        /\ call.op \in {"Get", "GetOr", "Has"} => ~ret.panicked
        /\ call.op = "Get" => ret.examined <= Len(call.keys)

\* a Get that walked over arrays with integers out of range, nil and a
\* float among its segments
NoPanicWitness ==
    /\ Returned("Get")
    /\ cur.err = NilErr
    /\ cur.data.kind = "[]interface {}"
    /\ Len(call.keys) = MaxMixedPath
    /\ call.keys[1] = MkInt(Len(cur.data.elems))
    /\ ~ret.panicked

\* the JSONValues in the caller's hands
Held == {cur} \cup (IF pc = "returned" THEN Obtained(call, ret) ELSE {})

\* C3: exactly one state.  Every JSONValue obtained from Parse, MustParse,
\* Valid, Invalid, Get, Array, Object and Clone either has no error or has an
\* error and no data: with an error set the stored data is nil and Raw
\* returns nil; IsValid is true iff Error is nil.
ExactlyOneState ==
    \A j \in Held :
        /\ Error(j) # NilErr => (j.data = Nil /\ Raw(j) = Nil)
        /\ IsValid(j) <=> (Error(j) = NilErr)

\* a Clone that failed on a valid receiver: both states are held
ExactlyOneStateWitness ==
    /\ Returned("Clone")
    /\ \E j \in Held : Error(j) # NilErr /\ Raw(j) = Nil
    /\ \E j \in Held : IsValid(j) /\ j.data # Nil

\* the zero-based position of the first segment of keys at which the walk
\* from j fails, found by walking the prefixes of the path
FirstFailing(j, keys) ==
    CHOOSE p \in 0..(Len(keys) - 1) :
        /\ ~IsValid(Get(j, SubSeq(keys, 1, p + 1)))
        /\ \A q \in 0..(p - 1) : IsValid(Get(j, SubSeq(keys, 1, q + 1)))

\* C4: fail-fast.  A failing Get on a valid receiver returns the error of the
\* first failing segment: the position named is that segment's zero-based
\* index, the error is the one the path cut after that segment produces, and
\* no later segment is examined.
FailFast ==
    (Returned("Get") /\ cur.err = NilErr /\ ret.val.err # NilErr) =>
        LET p == FirstFailing(cur, call.keys) IN
        /\ ret.val.err.op = "Get"
        /\ ret.val.err.msg.pos = p
        /\ ret.val.err = Get(cur, SubSeq(call.keys, 1, p + 1)).err
        /\ ret.examined = p + 1

\* the first segment succeeds, the second fails, and the third would also
\* fail on the node the second was applied to
FailFastWitness ==
    /\ Returned("Get")
    /\ cur.err = NilErr
    /\ Len(call.keys) = MaxPath
    /\ ret.val.err # NilErr
    /\ ret.val.err.msg.pos = 1
    /\ ~IsValid(Get(Get(cur, <<call.keys[1]>>), <<call.keys[3]>>))

\* C5: negative index rejection.  Get on a valid array with a first segment
\* that is a negative integer returns a failed value, whatever the array's
\* length.
NegativeIndexRejected ==
    (/\ Called("Get")
     /\ cur.err = NilErr
     /\ cur.data.kind = "[]interface {}"
     /\ Len(call.keys) >= 1
     /\ call.keys[1].kind = "int"
     /\ call.keys[1].i < 0)
    => (/\ pc = "returned"
        /\ ret.val.err # NilErr
        /\ ret.val.err.op = "Get"
        /\ ret.val.data = Nil)

NegativeIndexWitness ==
    /\ Returned("Get")
    /\ cur = JSONValue(MkSlice(<<>>), NilErr)
    /\ call.keys = <<MkInt(-1)>>
    /\ ret.val.err # NilErr

\* C6: out-of-bounds boundary.  When the path up to its last segment leads to
\* an array of length N and the last segment is the integer i: for
\* 0 <= i < N Get returns the i-th element, so N-1 gives the last one, and
\* for i >= N it fails with 'array index out of bounds' naming i, N and the
\* position.
OutOfBoundsBoundary ==
    (Called("Get") /\ cur.err = NilErr /\ Len(call.keys) >= 1) =>
        LET last == Len(call.keys)
            parent == Get(cur, SubSeq(call.keys, 1, last - 1))
            key == call.keys[last]
        IN (/\ parent.err = NilErr
            /\ parent.data.kind = "[]interface {}"
            /\ key.kind = "int"
            /\ key.i >= 0)
           => LET N == Len(parent.data.elems) IN
              /\ key.i < N => ret.val = JSONValue(parent.data.elems[key.i + 1], NilErr)
              /\ key.i >= N =>
                    ret.val = JSONValue(Nil, JSONError("Get",
                        [f |-> "array index %d out of bounds (length: %d) at position %d",
                         idx |-> key.i, len |-> N, pos |-> last - 1]))

OutOfBoundsWitness ==
    /\ Returned("Get")
    /\ cur.err = NilErr
    /\ cur.data.kind = "[]interface {}"
    /\ Len(cur.data.elems) = MaxLen
    /\ call.keys = <<MkInt(MaxLen)>>
    /\ ret.val.err # NilErr

\* C7: null is not missing.  On a valid object, Get of a key mapped to null
\* is valid and null and Has is true; Get of an absent key is failed and not
\* null and Has is false.  IsNull is true iff the value is valid with nil
\* data, and Has(path) is Get(path).IsValid().
NullIsNotMissing ==
    /\ Returned("IsNull") => (ret.b <=> (cur.err = NilErr /\ cur.data = Nil))
    /\ Returned("Has") => (ret.b <=> Get(cur, call.keys).err = NilErr)
    /\ (/\ pc = "returned"
        /\ call.op \in {"Get", "Has"}
        /\ cur.err = NilErr
        /\ cur.data.kind = "map[string]interface {}"
        /\ Len(call.keys) = 1
        /\ call.keys[1].kind = "string")
       => LET k == call.keys[1].s
              present == k \in DOMAIN cur.data.fields
              got == Get(cur, call.keys)
          IN /\ call.op = "Get" => ret.val = got
             /\ call.op = "Has" => (ret.b <=> present)
             /\ present => got.err = NilErr
             /\ (present /\ cur.data.fields[k] = Nil) => IsNull(got)
             /\ ~present => (got.err # NilErr /\ ~IsNull(got))

\* IsNull called on the failed value a Get of an absent key returned
NullIsNotMissingWitness ==
    /\ Returned("IsNull")
    /\ cur.err # NilErr
    /\ cur.err.msg.f = "key %q not found at position %d"
    /\ ~ret.b

VariantName(kind) ==
    CASE kind = "nil" -> "null"
      [] kind = "bool" -> "boolean"
      [] kind = "float64" -> "number"
      [] kind = "string" -> "string"
      [] kind = "[]interface {}" -> "array"
      [] kind = "map[string]interface {}" -> "object"
      [] OTHER -> "none"

Magnitude(s) == IF s # <<>> /\ s[1] \in {"+", "-"} THEN Tail(s) ELSE s

\* s is a base-10 integer literal: an optional sign and at least one digit
IsIntegerLiteral(s) ==
    /\ Magnitude(s) # <<>>
    /\ \A k \in 1..Len(Magnitude(s)) :
          Magnitude(s)[k] \in {"0", "1", "2", "3", "4", "5", "6", "7", "8", "9"}

\* n is the integer the literal s denotes
Denotes(s, n) ==
    /\ (n < 0) => s[1] = "-"
    /\ \E zeros \in 0..Len(Magnitude(s)) :
          /\ \A k \in 1..zeros : Magnitude(s)[k] = "0"
          /\ \/ SubSeq(Magnitude(s), zeros + 1, Len(Magnitude(s)))
                    = NatToStr(IF n < 0 THEN -n ELSE n)
             \/ n = 0 /\ zeros = Len(Magnitude(s))
    /\ (s[1] = "-") => n <= 0

\* t is the float64 m / 10^d cut toward zero
IsTruncation(t, m, d) ==
    IF m >= 0 THEN t * Pow10(d) <= m /\ m < (t + 1) * Pow10(d)
    ELSE (t - 1) * Pow10(d) < m /\ m <= t * Pow10(d)

\* C9: integer coercion.  Int on a valid value gives 0 for null, the number
\* cut toward zero for a number, the integer a string denotes when it is a
\* base-10 integer literal and otherwise an error tagged "Int"; and an error
\* tagged "Int" for a bool, an array and an object.
IntCoercion ==
    (Returned("Int") /\ cur.err = NilErr) =>
        LET d == cur.data IN
        /\ d.kind = "nil" => (ret.err = NilErr /\ ret.v = 0)
        /\ d.kind = "float64" => (ret.err = NilErr /\ IsTruncation(ret.v, d.m, d.d))
        /\ (d.kind = "string" /\ IsIntegerLiteral(d.s)) =>
              (ret.err = NilErr /\ Denotes(d.s, ret.v))
        /\ (d.kind = "string" /\ ~IsIntegerLiteral(d.s)) =>
              (ret.err # NilErr /\ ret.err.op = "Int")
        /\ d.kind \in {"bool", "[]interface {}", "map[string]interface {}"} =>
              (ret.err # NilErr /\ ret.err.op = "Int")

\* the number -42.5 gives -42
IntCoercionWitness ==
    /\ Returned("Int")
    /\ cur = JSONValue(MkFloat(-425, 1), NilErr)
    /\ ret.v = -42

\* C10: default-returning accessors.  IntOr, Float64Or and BoolOr return the
\* default exactly when Int, Float64 and Bool return an error, and their
\* value otherwise: the default on a failed receiver and on a string that
\* does not convert, the zero value (not the default) on a valid null.
DefaultAccessors ==
    /\ Returned("IntOr") =>
          /\ ret.v = (IF IntValue(cur).err # NilErr THEN call.def ELSE IntValue(cur).v)
          /\ cur.err # NilErr => ret.v = call.def
          /\ cur = JSONValue(Nil, NilErr) => ret.v = 0
          /\ cur = JSONValue(MkString(<<"a", "b", "c">>), NilErr) => ret.v = call.def
          /\ cur = JSONValue(MkString(<<"3", "0">>), NilErr) => ret.v = 30
    /\ Returned("Float64Or") =>
          /\ ret.v = (IF Float64(cur).err # NilErr THEN call.def ELSE Float64(cur).v)
          /\ cur.err # NilErr => ret.v = call.def
          /\ cur = JSONValue(Nil, NilErr) => ret.v = MkFloat(0, 0)
          /\ cur = JSONValue(MkString(<<"a", "b", "c">>), NilErr) => ret.v = call.def
          /\ cur = JSONValue(MkString(<<"4", "2", ".", "5">>), NilErr) => ret.v = MkFloat(425, 1)
    /\ Returned("BoolOr") =>
          /\ ret.v = (IF Bool(cur).err # NilErr THEN call.def ELSE Bool(cur).v)
          /\ cur.err # NilErr => ret.v = call.def
          /\ cur = JSONValue(Nil, NilErr) => ret.v = FALSE
          /\ cur = JSONValue(MkString(<<"a", "b", "c">>), NilErr) => ret.v = call.def
          /\ cur = JSONValue(MkString(<<"t", "r", "u", "e">>), NilErr) => ret.v = TRUE

\* IntOr with a default other than zero on a valid null
DefaultAccessorsWitness ==
    /\ Returned("IntOr")
    /\ cur = JSONValue(Nil, NilErr)
    /\ call.def # 0
    /\ ret.v = 0

GetShortCircuits ==
    Called("Get") =>
        /\ cur.err # NilErr =>
              (pc = "returned" /\ ret.val = cur /\ ret.examined = 0)
        /\ (cur.err = NilErr /\ call.keys = <<>>) =>
              /\ pc = "returned"
              /\ ret.val.err = NilErr
              /\ ret.val.data = cur.data
              /\ ret.examined = 0

\* the empty path on a valid null
GetShortCircuitsWitness ==
    /\ Returned("Get")
    /\ origin = "Parse"
    /\ cur = JSONValue(Nil, NilErr)
    /\ call.keys = <<>>
    /\ IsNull(ret.val)

ScalarKinds == {"nil", "bool", "float64", "string"}

\* the node the walk of keys from j stands on after p segments
NodeAfter(j, keys, p) == Get(j, SubSeq(keys, 1, p))

\* C15: non-containers admit no navigation.  When the walk stands on a null,
\* a bool, a number or a string and a segment remains, Get fails with an
\* error tagged "Get" that names that segment's position, whatever the
\* segment is; on null the error is the one of the nil check, on the others
\* the one naming the node's type.
NoNavigationOnScalars ==
    (Called("Get") /\ cur.err = NilErr) =>
        \A p \in 0..(Len(call.keys) - 1) :
            LET node == NodeAfter(cur, call.keys, p) IN
            (node.err = NilErr /\ node.data.kind \in ScalarKinds) =>
                /\ pc = "returned"
                /\ ret.val.data = Nil
                /\ ret.val.err # NilErr
                /\ ret.val.err.op = "Get"
                /\ ret.val.err.msg.pos = p
                /\ ret.val.err.msg.key = call.keys[p + 1]
                /\ node.data = Nil =>
                      ret.val.err.msg.f = "cannot access key %v on nil value at position %d"
                /\ node.data # Nil =>
                      /\ ret.val.err.msg.f = "cannot access key %v on type %T at position %d"
                      /\ ret.val.err.msg.typ = node.data.kind

\* a string reached under a key, and then a segment that is a bool
NoNavigationOnScalarsWitness ==
    /\ Returned("Get")
    /\ cur.err = NilErr
    /\ Len(call.keys) = 2
    /\ NodeAfter(cur, call.keys, 1).err = NilErr
    /\ NodeAfter(cur, call.keys, 1).data.kind = "string"
    /\ call.keys[2] = MkBool(TRUE)
    /\ ret.val.err # NilErr
    /\ ret.val.err.msg.pos = 1

\* C16: object step.  When the walk stands on an object: a segment that is
\* not a string fails with the type-mismatch error naming the segment's type
\* and position; a string that is no key of the object fails with 'key not
\* found' naming the key and position; a string that is a key moves the walk
\* to the child stored under it, also when that child is null.
ObjectStep ==
    (Called("Get") /\ cur.err = NilErr) =>
        \A p \in 0..(Len(call.keys) - 1) :
            LET node == NodeAfter(cur, call.keys, p)
                key == call.keys[p + 1]
            IN (node.err = NilErr /\ node.data.kind = "map[string]interface {}") =>
                /\ key.kind # "string" =>
                      /\ pc = "returned"
                      /\ ret.val = JSONValue(Nil, JSONError("Get",
                            [f |-> "key must be string for object access, got %T at position %d",
                             typ |-> key.kind, pos |-> p]))
                /\ (key.kind = "string" /\ key.s \notin DOMAIN node.data.fields) =>
                      /\ pc = "returned"
                      /\ ret.val = JSONValue(Nil, JSONError("Get",
                            [f |-> "key %q not found at position %d",
                             key |-> key, pos |-> p]))
                /\ (key.kind = "string" /\ key.s \in DOMAIN node.data.fields) =>
                      /\ NodeAfter(cur, call.keys, p + 1)
                            = JSONValue(node.data.fields[key.s], NilErr)
                      /\ p + 1 = Len(call.keys) =>
                            (pc = "returned"
                             /\ ret.val = JSONValue(node.data.fields[key.s], NilErr))

\* a key that is mapped to null
ObjectStepWitness ==
    /\ Returned("Get")
    /\ cur.err = NilErr
    /\ cur.data.kind = "map[string]interface {}"
    /\ Len(call.keys) = 1
    /\ call.keys[1].kind = "string"
    /\ call.keys[1].s \in DOMAIN cur.data.fields
    /\ cur.data.fields[call.keys[1].s] = Nil
    /\ ret.val = JSONValue(Nil, NilErr)

\* C17: GetOr.  GetOr(d, path) returns the payload of Get(path) when that is
\* valid, the nil payload of a null node included, and d exactly when
\* Get(path) is failed; the defaults of the model are no payload of any
\* document.
GetOrContract ==
    Returned("GetOr") =>
        LET got == Get(cur, call.keys) IN
        /\ got.err = NilErr => ret.raw = got.data
        /\ got.err # NilErr => ret.raw = call.def
        /\ (ret.raw = call.def) <=> (got.err # NilErr)
        /\ cur.err # NilErr => ret.raw = call.def

\* a path that leads to null
GetOrContractWitness ==
    /\ Returned("GetOr")
    /\ cur.err = NilErr
    /\ Len(call.keys) > 0
    /\ IsNull(Get(cur, call.keys))
    /\ ret.raw = Nil

\* the strings that strconv.ParseBool reads as true and as false
TrueLiterals == {<<"1">>, <<"t">>, <<"T">>, <<"t", "r", "u", "e">>,
                 <<"T", "R", "U", "E">>, <<"T", "r", "u", "e">>}

FalseLiterals == {<<"0">>, <<"f">>, <<"F">>, <<"f", "a", "l", "s", "e">>,
                  <<"F", "A", "L", "S", "E">>, <<"F", "a", "l", "s", "e">>}

\* C18: boolean coercion.  Bool on a valid value gives false for null, the
\* value itself for a bool, the boolean a string denotes under the
\* permissive literals and otherwise an error tagged "Bool", true iff
\* nonzero for a number, and an error tagged "Bool" for an array and an
\* object.
BoolCoercion ==
    (Returned("Bool") /\ cur.err = NilErr) =>
        LET d == cur.data IN
        /\ d.kind = "nil" => (ret.err = NilErr /\ ret.v = FALSE)
        /\ d.kind = "bool" => (ret.err = NilErr /\ ret.v = d.b)
        /\ (d.kind = "string" /\ d.s \in TrueLiterals) => (ret.err = NilErr /\ ret.v = TRUE)
        /\ (d.kind = "string" /\ d.s \in FalseLiterals) => (ret.err = NilErr /\ ret.v = FALSE)
        /\ (d.kind = "string" /\ d.s \notin TrueLiterals \cup FalseLiterals) =>
              (ret.err # NilErr /\ ret.err.op = "Bool")
        /\ d.kind = "float64" => (ret.err = NilErr /\ (ret.v <=> d # MkFloat(0, 0)))
        /\ d.kind \in {"[]interface {}", "map[string]interface {}"} =>
              (ret.err # NilErr /\ ret.err.op = "Bool")

\* the string "1" is true
BoolCoercionWitness ==
    /\ Returned("Bool")
    /\ cur = JSONValue(MkString(<<"1">>), NilErr)
    /\ ret.err = NilErr
    /\ ret.v = TRUE

\* C19: collection projection.  Array on a valid array of length N returns N
\* valid values, the i-th wrapping the i-th element, in order; Object on a
\* valid object returns a map with exactly the object's keys, each entry a
\* valid value wrapping that key's child.  Array on any other node and Object
\* on any other node fail with an error tagged "Array" and "Object"; on a
\* failed receiver both return the receiver's error.
CollectionProjection ==
    /\ Returned("Array") =>
          /\ cur.err # NilErr => ret.err = cur.err
          /\ (cur.err = NilErr /\ cur.data.kind = "[]interface {}") =>
                /\ ret.err = NilErr
                /\ Len(ret.v) = Len(cur.data.elems)
                /\ \A i \in 1..Len(ret.v) : ret.v[i] = JSONValue(cur.data.elems[i], NilErr)
          /\ (cur.err = NilErr /\ cur.data.kind # "[]interface {}") =>
                (ret.err # NilErr /\ ret.err.op = "Array" /\ ret.v = <<>>)
    /\ Returned("Object") =>
          /\ cur.err # NilErr => ret.err = cur.err
          /\ (cur.err = NilErr /\ cur.data.kind = "map[string]interface {}") =>
                /\ ret.err = NilErr
                /\ DOMAIN ret.v = DOMAIN cur.data.fields
                /\ \A k \in DOMAIN ret.v : ret.v[k] = JSONValue(cur.data.fields[k], NilErr)
          /\ (cur.err = NilErr /\ cur.data.kind # "map[string]interface {}") =>
                (ret.err # NilErr /\ ret.err.op = "Object" /\ ret.v = <<>>)

\* an array of the greatest length whose first and last elements differ
CollectionProjectionWitness ==
    /\ Returned("Array")
    /\ cur.err = NilErr
    /\ cur.data.kind = "[]interface {}"
    /\ Len(ret.v) = MaxLen
    /\ ret.v[1] # ret.v[MaxLen]
    /\ ret.v[1].err = NilErr

\* C20: Stringify on failed and null inputs.  Stringify and StringifyPretty
\* given a failed JSONValue return the empty string and that value's own
\* error, not one tagged "Stringify"; given nil or a valid JSONValue wrapping
\* null they return the text null and no error.
StringifyFailedAndNull ==
    (pc = "returned" /\ call.op \in {"Stringify", "StringifyPretty"}) =>
        /\ (call.in.kind = "jsjson.JSONValue" /\ call.in.j.err # NilErr) =>
              (ret.text = <<>> /\ ret.err = call.in.j.err)
        /\ (\/ call.in = Nil
            \/ call.in = Wrapped(JSONValue(Nil, NilErr))) =>
              (ret.text = <<Tok("null")>> /\ ret.err = NilErr)

\* Stringify of a value that a failed Get returned
StringifyFailedAndNullWitness ==
    /\ Returned("Stringify")
    /\ call.in = Wrapped(cur)
    /\ cur.err # NilErr
    /\ cur.err.op = "Get"
    /\ ret.err.op = "Get"
    /\ ret.text = <<>>

\* what the call c returns when it runs alone on j
Alone(j, c) ==
    CASE c.op = "Get" -> Get(j, c.keys)
      [] c.op = "GetOr" -> GetOr(j, c.def, c.keys)
      [] c.op = "Has" -> Has(j, c.keys)
      [] c.op = "Array" -> Array(j)
      [] c.op = "Object" -> Object(j)
      [] OTHER -> ReadResult(j, c)

Finished(t) == gr[t].pc = "done"

\* C12: concurrent reads are safe.  However the steps of the goroutines'
\* calls of Get, the coercions and the projections interleave, every call
\* returns what it returns when it runs alone on the value, and the value's
\* tree and error are what they were before the calls.
ConcurrentReadsSafe ==
    \A t \in Readers :
        Finished(t) =>
            /\ gr[t].out = Alone(initial, gr[t].call)
            /\ shared.data = initial.data
            /\ shared.err = initial.err

\* two goroutines have finished walks over different paths of one tree, and
\* the walks ended on different nodes
ConcurrentReadsSafeWitness ==
    /\ Finished(1)
    /\ Finished(2)
    /\ gr[1].call.op = "Get"
    /\ gr[2].call.op = "Get"
    /\ Len(gr[1].call.keys) = 2
    /\ Len(gr[2].call.keys) = 1
    /\ gr[1].out.err = NilErr
    /\ gr[2].out.err = NilErr
    /\ gr[1].out # gr[2].out

FrameOps == {"Get", "GetOr", "Has", "String", "Int", "Float64", "Bool", "Array",
             "Object", "IsNull", "Type", "Stringify", "Clone"}

\* C13: receiver and tree are left unchanged.  No step of a call of Get,
\* GetOr, Has, String, Int, Float64, Bool, Array, Object, IsNull, Type,
\* Stringify or Clone, whether the call succeeds or fails, changes the
\* receiver's validity, its error or a node of its tree; a failing Get on a
\* valid receiver leaves the receiver valid, and the value it returns is
\* another value than the receiver.
ReceiverUnchanged ==
    /\ shared = initial
    /\ IsValid(shared) <=> IsValid(initial)
    /\ \A t \in Readers :
          /\ gr[t].call.op \in FrameOps \cup {"none"}
          /\ (Finished(t) /\ gr[t].call.op = "Get" /\ initial.err = NilErr
              /\ gr[t].out.err # NilErr) =>
                 (IsValid(shared) /\ gr[t].out # shared)

\* a Get of an absent key has failed on a valid object
ReceiverUnchangedWitness ==
    \E t \in Readers :
        /\ Finished(t)
        /\ gr[t].call.op = "Get"
        /\ shared.err = NilErr
        /\ shared.data.kind = "map[string]interface {}"
        /\ gr[t].out.err # NilErr
        /\ gr[t].out.err.msg.f = "key %q not found at position %d"

\* the texts the encoder writes for the documents
Encodings == {Encode(doc) : doc \in Docs}

\* the input texts that are one well-formed JSON document: the encodings of
\* the documents, and the texts with white space and with a repeated key
WellFormed ==
    Encodings
    \cup {<<Tok("space"), Tok("["), Tok("space"), Tok("true"), Tok("]"), Tok("space")>>,
          <<Tok("{"), StrTok(<<"a">>), Tok(":"), Tok("null"), Tok(","),
            StrTok(<<"a">>), Tok(":"), Tok("false"), Tok("}")>>}

\* the Go values encoding/json can marshal: those without a channel
Marshalable == GoValues \ {MkChan, MkSlice(<<MkChan>>)}

\* C24: the Parse entry point.  Called without a destination, Parse returns
\* a failed value tagged "Parse" for a nil input, an empty string, an empty
\* byte slice and a text that is not one well-formed JSON document; a valid
\* value for a well-formed text and for a marshalable Go value; and the very
\* JSONValue it is given, valid or failed, so that parsing the result of
\* Parse gives that result again.  MustParse panics exactly when Parse
\* returns a failed value.
ParseEntryPoint ==
    ((Called("Parse") \/ Called("MustParse")) /\ call.dest \in {"none", "nil"}) =>
        LET v == call.in
            result == ret.val
            rejected == /\ result.err # NilErr
                        /\ result.err.op = "Parse"
                        /\ result.data = Nil
        IN
        /\ v = Nil => rejected
        /\ (v # Nil /\ v.kind \in {"string", "[]uint8"}) =>
              /\ (v.text = <<>> \/ v.text \notin WellFormed) => rejected
              /\ v.text \in WellFormed => IsValid(result)
              /\ v.text \in Encodings =>
                    (result.data \in Docs /\ Encode(result.data) = v.text)
        /\ v \in Marshalable => IsValid(result)
        /\ (v # Nil /\ v.kind = "jsjson.JSONValue") => result = v.j
        /\ Parse(Wrapped(result), "none") = result
        /\ Called("MustParse") =>
              ((pc = "panicked") <=> ~IsValid(Parse(v, call.dest)))

\* Parse was handed a value that a failed Get returned and gave it back
ParseEntryPointWitness ==
    /\ Returned("Parse")
    /\ call.in = Wrapped(cur)
    /\ cur.err # NilErr
    /\ cur.err.op = "Get"
    /\ ret.val = cur

\* the walk of keys from j stands on an array when it comes to segment p
OnArray(j, keys, p) ==
    /\ IsValid(NodeAfter(j, keys, p - 1))
    /\ NodeAfter(j, keys, p - 1).data.kind = "[]interface {}"

ArrayLen(j, keys, p) == Len(NodeAfter(j, keys, p - 1).data.elems)

\* the segment stands for the integer n: it is n, a base-10 integer literal
\* denoting n, or a number that is n once cut toward zero
StandsFor(key, n) ==
    CASE key.kind = "int" -> key.i = n
      [] key.kind = "string" -> IsIntegerLiteral(key.s) /\ Denotes(key.s, n)
      [] key.kind = "float64" -> IsTruncation(n, key.m, key.d)
      [] OTHER -> FALSE

IndexRange == (-20)..20

ConvertsToNegative(key) == \E n \in IndexRange : n < 0 /\ StandsFor(key, n)

InvalidIndexError(err, key, p) ==
    /\ err # NilErr
    /\ err.op = "Get"
    /\ err.msg.f = "invalid array index %v at position %d: %v"
    /\ err.msg.key = key
    /\ err.msg.pos = p - 1

OutOfBoundsError(err, n, length, p) ==
    /\ err # NilErr
    /\ err.op = "Get"
    /\ err.msg = [f |-> "array index %d out of bounds (length: %d) at position %d",
                  idx |-> n, len |-> length, pos |-> p - 1]

\* C25 as stated: on an array, a segment that converts to a negative integer
\* makes Get fail with the 'invalid array index' error.
NegativeIndexIsInvalidIndex ==
    (Called("Get") /\ cur.err = NilErr) =>
        \A p \in 1..Len(call.keys) :
            (OnArray(cur, call.keys, p) /\ ConvertsToNegative(call.keys[p])) =>
                InvalidIndexError(ret.val.err, call.keys[p], p)

\* C25: the error kind for a negative index.  When the walk stands on an
\* array and the segment converts to a negative integer (the integer -1, the
\* string "-1", a number that is cut to a negative value), Get returns and
\* fails with the 'array index out of bounds' error, which names that
\* negative integer, the array's length and the segment's position.
NegativeIndexOutOfBounds ==
    (Called("Get") /\ cur.err = NilErr) =>
        \A p \in 1..Len(call.keys) :
            (OnArray(cur, call.keys, p) /\ ConvertsToNegative(call.keys[p])) =>
                /\ pc = "returned"
                /\ \E n \in IndexRange :
                      /\ n < 0
                      /\ StandsFor(call.keys[p], n)
                      /\ OutOfBoundsError(ret.val.err, n, ArrayLen(cur, call.keys, p), p)

\* Get was called on an array with the string "-1"
NegativeIndexOutOfBoundsWitness ==
    /\ Returned("Get")
    /\ cur.err = NilErr
    /\ cur.data.kind = "[]interface {}"
    /\ call.keys = <<MkString(<<"-", "1">>)>>
    /\ OutOfBoundsError(ret.val.err, -1, Len(cur.data.elems), 1)

\* C26 as stated: on an array a segment that is neither a native integer,
\* nor a string of decimal digits only, nor a number is a conversion
\* failure, reported as 'invalid array index'.
IndexOnlyDigitStrings ==
    (Called("Get") /\ cur.err = NilErr) =>
        \A p \in 1..Len(call.keys) :
            LET key == call.keys[p] IN
            (/\ OnArray(cur, call.keys, p)
             /\ key.kind \notin {"int", "float64"}
             /\ ~(key.kind = "string" /\ key.s # <<>> /\ AllDigits(key.s))) =>
                InvalidIndexError(ret.val.err, key, p)

\* C26: index conversion of a path segment.  On an array a segment is taken
\* as an index if it is a native integer, a string that is a base-10 integer
\* literal with an optional sign ("+1" is index 1, "-0" is index 0), or a
\* number, cut toward zero: the walk then goes on with that element, or
\* fails with 'array index out of bounds' when there is none.  A string that
\* is no such literal (empty, with a space, a decimal point or letters) and
\* a segment of any other type (bool, nil, nested value) is a conversion
\* failure, reported as 'invalid array index'.
IndexConversion ==
    (Called("Get") /\ cur.err = NilErr) =>
        \A p \in 1..Len(call.keys) :
            LET key == call.keys[p]
                length == ArrayLen(cur, call.keys, p)
            IN
            OnArray(cur, call.keys, p) =>
                IF \E n \in IndexRange : StandsFor(key, n)
                THEN \E n \in IndexRange :
                        /\ StandsFor(key, n)
                        /\ pc = "returned"
                        /\ IF 0 <= n /\ n < length
                           THEN NodeAfter(cur, call.keys, p)
                                    = JSONValue(NodeAfter(cur, call.keys, p - 1).data.elems[n + 1],
                                                NilErr)
                           ELSE OutOfBoundsError(ret.val.err, n, length, p)
                ELSE InvalidIndexError(ret.val.err, key, p)

\* Get was called with the string "+1" on an array of two elements and
\* returned the second
IndexConversionWitness ==
    /\ Returned("Get")
    /\ cur.err = NilErr
    /\ cur.data.kind = "[]interface {}"
    /\ Len(cur.data.elems) = 2
    /\ call.keys = <<MkString(<<"+", "1">>)>>
    /\ ret.val = JSONValue(cur.data.elems[2], NilErr)

ScalarCoercions == {"String", "Int", "Float64", "Bool"}

\* the operations that make a failed value
FailingOps == {"Parse", "Get", "Clone", "Invalid"}

\* C27 as stated: String, Int, Float64 or Bool called on a failed value
\* returns an error whose operation tag is the name of the method called.
CoercionRetagsError ==
    (pc = "returned" /\ call.op \in ScalarCoercions /\ cur.err # NilErr) =>
        /\ ret.err # NilErr
        /\ ret.err.op = call.op

\* C27: the operation tag of a propagated coercion error.  String, Int,
\* Float64 or Bool called on a failed value returns an error, and it is the
\* receiver's own error: its operation tag is that of the operation that
\* failed first (Parse, Get, Clone or Invalid), never the name of the
\* coercion called, and its message is the receiver's.
PropagatedErrorKeepsTag ==
    (pc = "returned" /\ call.op \in ScalarCoercions /\ cur.err # NilErr) =>
        /\ ret.err # NilErr
        /\ ret.err.op = cur.err.op
        /\ ret.err.op \in FailingOps
        /\ ret.err.op # call.op
        /\ ret.err.msg = cur.err.msg

\* Int was called on the value a failed Get returned, and the error it
\* returned is tagged "Get"
PropagatedErrorKeepsTagWitness ==
    /\ Returned("Int")
    /\ cur.err # NilErr
    /\ cur.err.op = "Get"
    /\ ret.err.op = "Get"

\* a chain of single-segment Gets, one per segment of keys
RECURSIVE ChainOfGets(_, _)
ChainOfGets(j, keys) ==
    IF keys = <<>> THEN j
    ELSE ChainOfGets(Get(j, <<Head(keys)>>), Tail(keys))

\* the error a Get reports, with the position counted from n segments later
Shifted(err, n) == [err EXCEPT !.msg.pos = @ - n]

\* C29: path composition.  For every way to cut the path of a Get in two,
\* the Get with the whole path and the Get with the second part on the
\* result of the Get with the first part agree on validity and, when valid,
\* wrap the same node; when they fail on a valid receiver they report the
\* same error, except that a failure in the second part counts its position
\* from the start of the second call.  A Get of several segments thus agrees
\* with the chain of Gets of one segment each.
PathComposition ==
    Returned("Get") =>
        LET keys == call.keys
            whole == ret.val
        IN
        /\ \A n \in 0..Len(keys) :
              LET first == Get(cur, SubSeq(keys, 1, n))
                  chained == Get(first, SubSeq(keys, n + 1, Len(keys)))
              IN
              /\ IsValid(chained) <=> IsValid(whole)
              /\ IsValid(whole) => chained = whole
              /\ (~IsValid(whole) /\ ~IsValid(first)) => chained = whole
              /\ (~IsValid(whole) /\ IsValid(first)) =>
                    /\ whole.err.msg.pos >= n
                    /\ chained.err = Shifted(whole.err, n)
        /\ IsValid(ChainOfGets(cur, keys)) <=> IsValid(whole)
        /\ IsValid(whole) => ChainOfGets(cur, keys) = whole
        /\ (~IsValid(whole) /\ IsValid(cur)) =>
              ChainOfGets(cur, keys).err = Shifted(whole.err, whole.err.msg.pos)

\* a Get of three segments failed at its last segment, where the Get of
\* that segment alone reports position 0
PathCompositionWitness ==
    /\ Returned("Get")
    /\ IsValid(cur)
    /\ Len(call.keys) = 3
    /\ ~IsValid(ret.val)
    /\ ret.val.err.msg.pos = 2
    /\ IsValid(Get(cur, SubSeq(call.keys, 1, 2)))
    /\ Get(Get(cur, SubSeq(call.keys, 1, 2)), <<call.keys[3]>>).err.msg.pos = 0

\* a call of op on recv has returned and nothing was written since
JustReturned(op) == hc.pc = "returned" /\ hc.op = op

\* the value the last call handed to the caller
Handed == HeldBy(destination)

\* C21: Clone is a deep copy.  For a valid value whose tree Parse produced,
\* Clone returns a valid value with a tree equal to the receiver's, so that
\* every path gives the same Type and payload on both, and no array or
\* object of the clone is one of the receiver's or of the parsed value's;
\* for a failed value Clone returns that failed value.
CloneIsDeepCopy ==
    (JustReturned("Clone") /\ hc.from = "Parse") =>
        LET clone == destination.j IN
        IF recv.err # NilErr THEN clone = recv
        ELSE /\ IsValid(clone)
             /\ Load(heap, clone.data) = Load(heap, recv.data)
             /\ \A keys \in HeapPaths \cup {<<>>} :
                   LET mine == Get(JSONValue(Load(heap, recv.data), NilErr), keys)
                       other == Get(JSONValue(Load(heap, clone.data), NilErr), keys)
                   IN /\ Type(mine) = Type(other)
                      /\ Raw(mine) = Raw(other)
             /\ Reach(heap, clone.data) \cap Reach(heap, recv.data) = {}
             /\ Reach(heap, clone.data) \cap Reach(heap, parsed.data) = {}

\* a tree with a container inside a container was cloned
CloneIsDeepCopyWitness ==
    /\ JustReturned("Clone")
    /\ hc.from = "Parse"
    /\ recv.err = NilErr
    /\ Cardinality(Reach(heap, recv.data)) = 2
    /\ Cardinality(Reach(heap, destination.j.data)) = 2
    /\ destination.j.data # recv.data

ToOps == {"To", "MustTo"}

\* To or MustTo was called on a valid receiver with a pointer
ToOnPointer ==
    /\ hc.pc \in {"returned", "panicked"}
    /\ hc.op \in ToOps
    /\ recv.err = NilErr
    /\ hc.before # Nil
    /\ hc.before.kind = "ptr"

\* JSON can say the node: it is no channel and holds none
Encodable(tree) == tree.kind # "chan int"

\* the JSON value v can be decoded into a variable of the scalar type typ
Fits(typ, v) ==
    \/ v.kind = "nil"
    \/ typ \in {"string", "bool", "float64"} /\ v.kind = typ
    \/ typ = "float64" /\ v.kind = "int"
    \/ typ = "int" /\ v.kind = "int"
    \/ typ = "int" /\ v.kind = "float64" /\ FloatToInt(v) * Pow10(v.d) = v.m

\* the scalar of type typ that the JSON value v denotes, old for null
Converted(typ, old, v) ==
    CASE v.kind = "nil" -> old
      [] typ = "int" /\ v.kind = "float64" -> MkInt(FloatToInt(v))
      [] typ = "float64" /\ v.kind = "int" -> IntToFloat(v.i)
      [] OTHER -> v

\* the field of a User after decoding the object tree into it
FieldAfter(typ, old, tree, key) ==
    IF key \in DOMAIN tree.fields /\ Fits(typ, tree.fields[key])
    THEN Converted(typ, old, tree.fields[key])
    ELSE old

\* C22: To, success paths.  For a valid value and a pointer destination:
\* when the node is not null and its type is the type of the variable
\* pointed to, or that variable is an interface{}, To stores the node in the
\* variable and returns no error (fast path).  Otherwise (slow path, always
\* taken for null) the variable ends as decoding the node's JSON text into
\* it leaves it, and To returns no error iff the node can be encoded and the
\* text decoded: null makes an interface{}, map or slice nil and leaves
\* every other variable alone, a number goes into a float64 and, when whole,
\* into an int, an object goes field by field into a struct, and a node of
\* another type leaves the variable as it was.
ToSuccessPaths ==
    ToOnPointer =>
        LET node == recv.data
            typ == hc.before.elem
            old == hc.before.val
            new == destination.val
            tree == Load(hc.h0, node)
            ok == hc.err = NilErr
        IN
        IF node # Nil /\ (node.kind = typ \/ typ = "interface {}")
        THEN /\ hc.path = "fast"
             /\ ok
             /\ new = node
             /\ heap = hc.h0
        ELSE /\ hc.path = "slow"
             /\ ~ok => (hc.err.op = "To")
             /\ CASE node = Nil ->
                        /\ ok
                        /\ new = IF typ = "interface {}" THEN Nil
                                 ELSE IF typ \in {"map[string]interface {}", "[]interface {}"}
                                 THEN NilOf(typ)
                                 ELSE old
                  [] ~Encodable(tree) ->
                        /\ ~ok
                        /\ hc.err.msg.f = "failed to marshal data: %w"
                        /\ new = old
                  [] typ = "User" /\ tree.kind = "map[string]interface {}" ->
                        /\ new.kind = "User"
                        /\ new.Name = FieldAfter("string", old.Name, tree, NameKey)
                        /\ new.Age = FieldAfter("int", old.Age, tree, AgeKey)
                        /\ ok <=> /\ NameKey \in DOMAIN tree.fields =>
                                        Fits("string", tree.fields[NameKey])
                                  /\ AgeKey \in DOMAIN tree.fields =>
                                        Fits("int", tree.fields[AgeKey])
                  [] typ \in {"string", "bool", "float64", "int"} /\ Fits(typ, tree) ->
                        /\ ok
                        /\ new = Converted(typ, old, tree)
                  [] OTHER ->
                        /\ ~ok
                        /\ hc.err.msg.f = "failed to unmarshal into destination: %w"
                        /\ new = old
                        /\ Load(heap, new) = Load(hc.h0, old)

\* To has decoded an object into a User that held other values: the slow
\* path, without an error
ToSuccessPathsWitness ==
    /\ ToOnPointer
    /\ hc.op = "To"
    /\ hc.path = "slow"
    /\ hc.err = NilErr
    /\ hc.before.val = MkUser(<<"o">>, 7)
    /\ destination.val = MkUser(<<"A", "l">>, 30)

ToCalled == hc.pc \in {"returned", "panicked"} /\ hc.op \in ToOps

\* the error is one of To's own
TaggedTo(err) == err # NilErr /\ err.op = "To"

\* C23: To, error cases.  To returns an error tagged "To" and leaves the
\* destination as it was when the receiver is failed (whatever the
\* destination is, and with the receiver's error inside the error
\* returned), when the destination is nil, and when it is no pointer.
\* MustTo panics exactly when To returns an error, and To itself returns.
ToErrorCases ==
    ToCalled =>
        /\ recv.err # NilErr =>
              /\ TaggedTo(hc.err)
              /\ hc.err.msg.err = recv.err
              /\ destination = hc.before
              /\ heap = hc.h0
        /\ (recv.err = NilErr /\ hc.before = Nil) =>
              /\ TaggedTo(hc.err)
              /\ hc.err.msg.f = "destination cannot be nil"
              /\ destination = Nil
              /\ heap = hc.h0
        /\ (recv.err = NilErr /\ hc.before # Nil /\ hc.before.kind # "ptr") =>
              /\ TaggedTo(hc.err)
              /\ hc.err.msg = [f |-> "destination must be a pointer, got %T",
                               typ |-> hc.before.kind]
              /\ destination = hc.before
              /\ heap = hc.h0
        /\ hc.op = "To" => hc.pc = "returned"
        /\ hc.op = "MustTo" =>
              /\ (hc.pc = "panicked") <=> (hc.err # NilErr)
              /\ (hc.pc = "panicked") <=> (To(hc.h0, recv, hc.before).err # NilErr)

\* MustTo has panicked on the value a failed Get returned, with a pointer
\* to a User
ToErrorCasesWitness ==
    /\ hc.pc = "panicked"
    /\ hc.op = "MustTo"
    /\ recv.err # NilErr
    /\ recv.err.op = "Get"
    /\ hc.before = PointerTo("User", MkUser(<<"o">>, 7))
    /\ destination = hc.before

\* the last call handed out the receiver's node itself: To on its fast
\* path, Raw on a valid receiver, or GetOr where its Get succeeds
HandsOutNode ==
    /\ hc.pc \in {"returned", "written"}
    /\ recv.err = NilErr
    /\ \/ hc.op \in ToOps /\ hc.path = "fast"
       \/ hc.op = "Raw"
       \/ hc.op = "GetOr" /\ GetOnHeap(hc.h0, recv, hc.keys).err = NilErr

\* the last call decoded or cloned: To on its slow path, or Clone
HandsOutCopy ==
    /\ hc.pc \in {"returned", "written"}
    /\ \/ hc.op \in ToOps /\ hc.path = "slow"
       \/ hc.op = "Clone"

\* the path from the parsed value to the node handed out
PathHanded == hc.via \o hc.keys

\* C30: aliasing through To and Raw.  On To's fast path, from Raw and from
\* GetOr the caller gets the receiver's own array or object, not a copy: it
\* is the container that Get reaches in the parsed value, and after a write
\* through it every Get on the parsed value that leads there gives what was
\* written.  After To on its slow path and after Clone, what the caller
\* holds has no container in common with the parsed value's tree, and a
\* write through it leaves that tree as it was.
AliasingThroughToAndRaw ==
    /\ HandsOutNode =>
          /\ Handed = GetOnHeap(hc.h0, recv, hc.keys).data
          /\ Handed = GetOnHeap(hc.h0, parsed, PathHanded).data
          /\ OnHeap(Handed) => Reach(heap, Handed) \subseteq Reach(heap, parsed.data)
          /\ hc.pc = "written" =>
                /\ Load(heap, parsed.data) # hc.tree
                /\ hc.at = Handed.at =>
                      GetOnHeap(heap, parsed, PathHanded \o <<hc.slot>>)
                          = JSONValue(Written, NilErr)
    /\ HandsOutCopy =>
          /\ Reach(heap, Handed) \cap Reach(heap, parsed.data) = {}
          /\ Load(heap, parsed.data) = hc.tree

\* after obj.Get("tags").To(&s) with s a []interface{}, s[1] was written,
\* and obj.Get("tags", 1) gives the value written
AliasingThroughToAndRawWitness ==
    /\ hc.pc = "written"
    /\ hc.op = "To"
    /\ hc.path = "fast"
    /\ hc.before = PointerTo("[]interface {}", NilOf("[]interface {}"))
    /\ hc.via = <<MkString(TagsKey)>>
    /\ hc.slot = MkInt(1)
    /\ Get(JSONValue(Load(heap, parsed.data), NilErr), <<MkString(TagsKey), MkInt(1)>>)
           = JSONValue(Written, NilErr)

\* the call of goroutine t has a buffer in its hands
Holding(t) == inflight[t].pc \in {"prepare", "encode", "trim", "decode", "put"}

\* C28: the buffer pool is invisible.  Under every interleaving of calls of
\* Stringify, To and Clone: a buffer has length 0 when the encoder writes to
\* it, and every buffer in the pool has length 0; a buffer in the hands of a
\* call is in no other call's hands and not in the pool; and what a call
\* returns - the string, the error and destination, or the cloned value - is
\* what the call returns when it runs alone, and stays so while the buffer
\* it used, back in the pool, is used by other calls.
BufferPoolInvisible ==
    /\ \A b \in bytesPool : buffers[b].bytes = <<>>
    /\ \A t \in Callers :
          /\ inflight[t].at0 \in {-1, 0}
          /\ inflight[t].pc \in {"trim", "decode"} => inflight[t].at0 = 0
          /\ Holding(t) =>
                /\ inflight[t].buf \in BufferIds \ bytesPool
                /\ \A u \in Callers \ {t} :
                      Holding(u) => inflight[u].buf # inflight[t].buf
          /\ inflight[t].pc = "done" => inflight[t].out = Whole(inflight[t].call)

\* a Stringify has returned its string, and the buffer it used is being
\* decoded by a Clone of another goroutine
BufferPoolInvisibleWitness ==
    \E t \in Callers, u \in Callers :
        /\ inflight[t].pc = "done"
        /\ inflight[t].call.op = "Stringify"
        /\ inflight[t].out.err = NilErr
        /\ inflight[t].at0 = 0
        /\ inflight[u].pc = "decode"
        /\ inflight[u].call.op = "Clone"
        /\ inflight[u].buf = inflight[t].buf

====
